---- MODULE Spec2Model ----
(***************************************************************************)
(* A model of the HackerNews analytical platform: the story tracker of the *)
(* ingestion stage, the quality runner, the processor (raw -> processed)   *)
(* and the transformer (processed -> output).                              *)
(*                                                                         *)
(* Dates are day ordinals: the code keeps them as "YYYY-MM-DD" strings and *)
(* turns them into datetimes only to subtract them, so a date is modelled  *)
(* as the number of its day and a difference of dates as a difference of   *)
(* day numbers.  A timestamp is a number of hours; day d starts at hour    *)
(* 24 * d.                                                                 *)
(***************************************************************************)
EXTENDS Integers, Sequences, FiniteSets, TLC

VARIABLES
    \* ---- story tracker (ingestion/story_tracker.py) ----
    today,             \* datetime.utcnow() as a day ordinal
    tracking,          \* the tracking mapping kept between runs
    existing_tracked,  \* update_tracking's arguments at its last call
    new_story_ids,
    story_metrics,
    tracker_called,    \* whether update_tracking was called yet
    \* ---- quality runner (quality/runner.py) ----
    results,           \* the list of CheckResult handed to _build_report
    report,            \* the QualityReport it built (NoReport before)
    \* ---- transformer (transformation/hn_transformer.py) ----
    tr,                \* one run of HNTransformer.transform
    \* ---- processor (processing/hn_processor.py) ----
    pr,                \* one run of HNProcessor.process
    \* ---- tracking store and ingest run (ingestion/) ----
    store,             \* the S3 object metadata/story_tracking.json
    loaded,            \* load_active_stories' return since the last save
    ing,               \* one run of HNIngestor.ingest
    repeat             \* a second update_tracking call on the same inputs

trackerVars == <<today, tracking, existing_tracked, new_story_ids,
                 story_metrics, tracker_called>>
reportVars == <<results, report>>
ingestVars == <<store, loaded, ing, repeat>>
vars == <<today, tracking, existing_tracked, new_story_ids, story_metrics,
          tracker_called, results, report, tr, pr, store, loaded, ing,
          repeat>>

NULL == "null"

Max(a, b) == IF a >= b THEN a ELSE b

\* The empty dict {}.
EmptyMap == [i \in {} |-> NULL]

(***************************************************************************)
(*                            STORY TRACKER                                *)
(***************************************************************************)

\* tracking_days, the constructor's argument (7 in ingestion/main.py).
TrackingDays == 2

\* at least 5 new comments count as a significant change
MinNewComments == 5

\* The last day a run may happen on: long enough for an entry to age out.
MaxDay == TrackingDays + 2

\* A missing or empty last_updated ("if not last_updated").
NoDate == 0

StoryIds == {1, 2}
\* The metrics a fetched story may show: a base value, fewer than 5 and
\* exactly 5 more comments, and another score.
Metrics ==
    {[score |-> 50, descendants |-> 10], [score |-> 50, descendants |-> 13],
     [score |-> 50, descendants |-> 15], [score |-> 75, descendants |-> 10]}

\* The metrics used in direct calls.
DirectMetrics ==
    {[score |-> 50, descendants |-> 10], [score |-> 75, descendants |-> 10]}

\* Every dict id -> value with keys among S.
PartialMaps(S, V) == UNION {[D -> V] : D \in SUBSET S}

\* _has_significant_changes
HasSignificantChangesNoComments(old_metadata, current_metrics) ==
    current_metrics.score # old_metadata.last_score

HasSignificantChanges(old_metadata, current_metrics) ==
    LET score_changed == current_metrics.score # old_metadata.last_score
        comments_increased ==
            (current_metrics.descendants - old_metadata.last_descendants)
                >= MinNewComments
    IN  score_changed \/ comments_increased

\* _should_keep_tracking
ShouldKeepTrackingInclusive(metadata, day) ==
    (day - metadata.last_updated) <= TrackingDays

ShouldKeepTracking(metadata, day) ==
    IF metadata.last_updated = NoDate
    THEN TRUE
    ELSE LET days_without_changes == day - metadata.last_updated
         IN  days_without_changes < TrackingDays

\* The entry written for a tracked story whose metrics changed.
RefreshedEntrySeenToday(metadata, current_metrics, day) ==
    [first_seen       |-> day,
     last_updated     |-> metadata.last_updated,
     last_score       |-> current_metrics.score,
     last_descendants |-> current_metrics.descendants]

RefreshedEntry(metadata, current_metrics, day) ==
    [first_seen       |-> metadata.first_seen,
     last_updated     |-> day,
     last_score       |-> current_metrics.score,
     last_descendants |-> current_metrics.descendants]

\* The entry written for a newly discovered story; metrics.get(..., 0).
NewEntry(id, metrics, day) ==
    [first_seen       |-> day,
     last_updated     |-> day,
     last_score       |-> IF id \in DOMAIN metrics THEN metrics[id].score ELSE 0,
     last_descendants |-> IF id \in DOMAIN metrics
                          THEN metrics[id].descendants ELSE 0]

\* Phase 1 of update_tracking: the loop over existing_tracked.
UpdateExistingKeepMissing(existing, metrics, day) ==
    LET kept == {id \in DOMAIN existing :
                    \/ id \notin DOMAIN metrics
                    \/ HasSignificantChanges(existing[id], metrics[id])
                    \/ ShouldKeepTracking(existing[id], day)}
    IN  [id \in kept |->
            IF id \in DOMAIN metrics
               /\ HasSignificantChanges(existing[id], metrics[id])
            THEN RefreshedEntry(existing[id], metrics[id], day)
            ELSE existing[id]]

UpdateExisting(existing, metrics, day) ==
    LET kept == {id \in DOMAIN existing :
                    /\ id \in DOMAIN metrics
                    /\ \/ HasSignificantChanges(existing[id], metrics[id])
                       \/ ShouldKeepTracking(existing[id], day)}
    IN  [id \in kept |->
            IF HasSignificantChanges(existing[id], metrics[id])
            THEN RefreshedEntry(existing[id], metrics[id], day)
            ELSE existing[id]]

\* update_tracking: phase 1, then phase 2 (the loop over new_story_ids).
UpdateTrackingNewOnce(existing, newIds, metrics, day) ==
    LET updated == UpdateExisting(existing, metrics, day)
    IN  [id \in (DOMAIN updated) \cup (newIds \ DOMAIN tracking) |->
            IF id \in DOMAIN updated
            THEN updated[id]
            ELSE NewEntry(id, metrics, day)]

UpdateTracking(existing, newIds, metrics, day) ==
    LET updated == UpdateExisting(existing, metrics, day)
    IN  [id \in (DOMAIN updated) \cup newIds |->
            IF id \in DOMAIN updated
            THEN updated[id]
            ELSE NewEntry(id, metrics, day)]

\* The first run: no tracking object exists yet.
TrackerInit ==
    /\ today = 1
    /\ tracking = EmptyMap
    /\ existing_tracked = EmptyMap
    /\ new_story_ids = {}
    /\ story_metrics = EmptyMap
    /\ tracker_called = FALSE

\* One call of update_tracking on the current mapping; the caller keeps the
\* result as the new mapping.
CallUpdateTracking(newIds, metrics) ==
    /\ tracker_called' = TRUE
    /\ existing_tracked' = tracking
    /\ new_story_ids' = newIds
    /\ story_metrics' = metrics
    /\ tracking' = UpdateTracking(tracking, newIds, metrics, today)
    /\ UNCHANGED today

\* update_tracking as HNIngestor.ingest calls it: the new ids are the top
\* stories that were not tracked, the metrics those of the stories fetched
\* (tracked stories that could be re-fetched, and the top stories).
IngestUpdate ==
    \E newIds \in SUBSET (StoryIds \ DOMAIN tracking),
       fetched \in SUBSET (DOMAIN tracking) :
        \E metrics \in [fetched \cup newIds -> Metrics] :
            /\ CallUpdateTracking(newIds, metrics)
            /\ UNCHANGED <<reportVars, tr, pr, ingestVars>>

\* update_tracking called directly, with any arguments.
DirectUpdate ==
    \E newIds \in SUBSET StoryIds,
       metrics \in PartialMaps(StoryIds, DirectMetrics) :
        /\ CallUpdateTracking(newIds, metrics)
        /\ UNCHANGED <<reportVars, tr, pr, ingestVars>>

\* A day passes between two runs; the last call's arguments are gone.
NextDay ==
    /\ today < MaxDay
    /\ today' = today + 1
    /\ existing_tracked' = EmptyMap
    /\ new_story_ids' = {}
    /\ story_metrics' = EmptyMap
    /\ tracker_called' = FALSE
    /\ UNCHANGED <<tracking, reportVars, tr, pr, ingestVars>>

(***************************************************************************)
(*                            QUALITY RUNNER                               *)
(***************************************************************************)

\* The sequences over S of length at most n.
SeqsUpTo(S, n) == UNION {[1..k -> S] : k \in 0..n}

\* The rows of a frame at the positions in I, in the frame's order.
Pick(rows, I) ==
    LET F[k \in 0..Len(rows)] ==
            IF k = 0 THEN <<>>
            ELSE IF k \in I THEN Append(F[k - 1], rows[k]) ELSE F[k - 1]
    IN  F[Len(rows)]

\* How many check results a list handed to _build_report may hold.
MaxChecks == 3

\* A CheckResult as _build_report reads it: passed, severity and
\* details.get("entity", "unknown").
CheckResults ==
    [passed : BOOLEAN, severity : {"critical", "warning"},
     entity : {"unknown", "stories"}]

\* No report built (None).
NoReport == [none |-> TRUE]

\* has_critical = any(not r.passed and r.severity == "critical")
HasCriticalAnyFailure(rs) ==
    \E i \in DOMAIN rs : ~rs[i].passed

HasCritical(rs) ==
    \E i \in DOMAIN rs : ~rs[i].passed /\ rs[i].severity = "critical"

\* The per-entity summary of _build_report.
EntitySummary(rs) ==
    [e \in {rs[i].entity : i \in DOMAIN rs} |->
        [passed |-> Cardinality({i \in DOMAIN rs :
                                    rs[i].entity = e /\ rs[i].passed}),
         failed |-> Cardinality({i \in DOMAIN rs :
                                    rs[i].entity = e /\ ~rs[i].passed})]]

\* _build_report (generated_at, a wall-clock stamp, is left out).
BuildReport(ingestion_date, rs) ==
    LET total == Len(rs)
        passed == Cardinality({i \in DOMAIN rs : rs[i].passed})
        failed == total - passed
    IN  [ingestion_date        |-> ingestion_date,
         total_checks          |-> total,
         passed_checks         |-> passed,
         failed_checks         |-> failed,
         has_critical_failures |-> HasCritical(rs),
         entities              |-> EntitySummary(rs),
         checks                |-> rs]

\* A null creation time (NaT) and a null hours_to_peak (NaN).
NoTime == -1
NoHours == -1

\* The columns of a frame; pd.DataFrame(), the empty frame, has none.
Columns(rows) == IF rows = <<>> THEN {} ELSE DOMAIN rows[1]

\* isna(): a creation time may be NaT and hours_to_peak NaN; no other
\* column of the model holds nulls.
IsNull(r, column) ==
    CASE column = "time" -> r.time = NoTime
      [] column = "hours_to_peak" -> r.hours_to_peak = NoHours
      [] OTHER -> FALSE

\* check_not_null
CheckNotNull(rows, columns, severity) ==
    LET missing_columns == {c \in columns : c \notin Columns(rows)}
        affected == Cardinality({i \in DOMAIN rows :
                        \E c \in columns : IsNull(rows[i], c)})
    IN  IF missing_columns # {}
        THEN [name |-> "check_not_null", passed |-> FALSE,
              severity |-> severity, entity |-> "unknown",
              affected_records |-> Len(rows)]
        ELSE [name |-> "check_not_null", passed |-> affected = 0,
              severity |-> severity, entity |-> "unknown",
              affected_records |-> affected]

\* check_unique on (id, ingestion_date): duplicated(keep=False)
CheckUnique(rows, severity) ==
    LET affected == Cardinality({i \in DOMAIN rows :
            \E j \in DOMAIN rows :
                /\ j # i
                /\ rows[j].id = rows[i].id
                /\ rows[j].ingestion_date = rows[i].ingestion_date})
    IN  [name |-> "check_unique", passed |-> affected = 0,
         severity |-> severity, entity |-> "unknown",
         affected_records |-> affected]

\* check_range: min_values and max_values hold the bound when one is given
\* and are empty when it is None; a missing value (NaN) is never invalid.
CheckRange(rows, column, min_values, max_values, severity) ==
    LET affected == Cardinality({i \in DOMAIN rows :
            /\ ~IsNull(rows[i], column)
            /\ \/ \E m \in min_values : rows[i][column] < m
               \/ \E m \in max_values : rows[i][column] > m})
    IN  IF column \notin Columns(rows)
        THEN [name |-> "check_range", passed |-> FALSE,
              severity |-> severity, entity |-> "unknown",
              affected_records |-> Len(rows)]
        ELSE [name |-> "check_range", passed |-> affected = 0,
              severity |-> severity, entity |-> "unknown",
              affected_records |-> affected]

\* check_referential_integrity of parent against the ids of valid_parents
CheckReferentialIntegrity(rows, valid_parents, severity) ==
    LET valid_parent_values == {valid_parents[i].id : i \in DOMAIN valid_parents}
        affected == Cardinality({i \in DOMAIN rows :
                                    rows[i].parent \notin valid_parent_values})
    IN  [name |-> "check_referential_integrity", passed |-> affected = 0,
         severity |-> severity, entity |-> "unknown",
         affected_records |-> affected]

\* check_volume
CheckVolume(rows, entity, min_expected, severity) ==
    LET actual == Len(rows)
        passed == actual >= min_expected
    IN  [name |-> "check_volume", passed |-> passed,
         severity |-> severity, entity |-> entity,
         affected_records |-> IF passed THEN 0 ELSE min_expected - actual]

\* _build_report called on the list of results.
BuildReportCall ==
    /\ report = NoReport
    /\ \E ingestion_date \in 1..MaxDay :
           report' = BuildReport(ingestion_date, results)
    /\ UNCHANGED <<trackerVars, results, tr, pr, ingestVars>>

(***************************************************************************)
(*                              TRANSFORMER                                *)
(***************************************************************************)

\* window_days, the constructor's argument (7 by default).
WindowDays == 1

\* The date transform is run for; the window's dates are 1..WindowDays.
TargetDate == WindowDays + 1

\* How many rows a processed partition of the target date may hold.  The
\* partition is the concatenation of its files, so an id may come twice.
MaxRows == 2

LongTailHoursThreshold == 48

\* The sentiment thresholds 0.05 and -0.05; scores are kept in units of
\* 0.0001, the precision of round(compound, 4).
SentimentPositiveThreshold == 500
SentimentNegativeThreshold == -500

\* A processed story row; only the columns the enrichment reads.
StoryRow(id, date, score, descendants, time) ==
    [id |-> id, ingestion_date |-> date, score |-> score,
     descendants |-> descendants, time |-> time]

\* A processed comment row.
CommentRow(id, date, parent, text) ==
    [id |-> id, ingestion_date |-> date, parent |-> parent, text |-> text]

\* The story rows of the target partition: story 1, created at hour 0 or
\* with a creation time that could not be parsed, and story 2.
TargetStoryRows ==
    {StoryRow(1, TargetDate, 20, 5, 0), StoryRow(1, TargetDate, 20, 5, NoTime),
     StoryRow(2, TargetDate, 20, 5, 0)}

\* The comment rows of the target partition: the parent is story 1 or an
\* id nobody has.
TargetCommentRows ==
    {CommentRow(11, TargetDate, 1, "<p>great</p>"),
     CommentRow(11, TargetDate, 99, "<p>great</p>"),
     CommentRow(12, TargetDate, 1, "<p></p>")}

\* The partitions of the window's dates: per date no file, or one file with
\* one earlier snapshot of story 1.
HistoryPartitions ==
    {h \in [1..WindowDays ->
                {<<>>} \cup {<<StoryRow(1, d, 10, 0, 0)>> : d \in 1..WindowDays}] :
        \A d \in 1..WindowDays :
            \A i \in DOMAIN h[d] : h[d][i].ingestion_date = d}

\* _load_historical_stories: the partitions of date - 1, date - 2, ...,
\* date - window_days, concatenated in that order.
LoadWindow(history, date, window_days) ==
    LET F[i \in 0..window_days] ==
            IF i = 0 THEN <<>> ELSE F[i - 1] \o history[date - i]
    IN  F[window_days]

LoadHistoricalStories(history, date) == LoadWindow(history, date, WindowDays)

\* drop_duplicates(subset=["id", "ingestion_date"], keep="last")
DropDuplicatesKeepFirst(rows) ==
    Pick(rows, {i \in DOMAIN rows :
                   \A j \in 1..(i - 1) :
                       \/ rows[j].id # rows[i].id
                       \/ rows[j].ingestion_date # rows[i].ingestion_date})

DropDuplicatesNone(rows) == rows

DropDuplicates(rows) ==
    Pick(rows, {i \in DOMAIN rows :
                   \A j \in (i + 1)..Len(rows) :
                       \/ rows[j].id # rows[i].id
                       \/ rows[j].ingestion_date # rows[i].ingestion_date})

\* sort_values(["id", "ingestion_date"])
KeyLess(a, b) ==
    \/ a.id < b.id
    \/ a.id = b.id /\ a.ingestion_date < b.ingestion_date

SortValues(rows) ==
    LET n == Len(rows)
        rank(i) == 1 + Cardinality({j \in 1..n :
                        \/ KeyLess(rows[j], rows[i])
                        \/ ~KeyLess(rows[i], rows[j]) /\ j < i})
    IN  [k \in 1..n |-> rows[CHOOSE i \in 1..n : rank(i) = k]]

\* is_long_tail: more than 48 hours after the creation, with descendants
\* that grew; a comparison with a missing time is False.
IsLongTailFromThreshold(time, ingestion_date, comment_velocity) ==
    /\ time # NoTime
    /\ 24 * ingestion_date - time >= LongTailHoursThreshold
    /\ comment_velocity > 0

IsLongTail(time, ingestion_date, comment_velocity) ==
    /\ time # NoTime
    /\ 24 * ingestion_date - time > LongTailHoursThreshold
    /\ comment_velocity > 0

\* _enrich_stories_temporal.  Times are whole hours, so round(2) changes
\* nothing.
EnrichStoriesTemporal(target_stories, historical_stories, ingestion_date) ==
    LET all_obs == SortValues(DropDuplicates(historical_stories \o target_stories))
        n == Len(all_obs)
        group(i) == {j \in 1..n : all_obs[j].id = all_obs[i].id}
        has_prev(i) == i > 1 /\ all_obs[i - 1].id = all_obs[i].id
        score_velocity(i) ==
            IF has_prev(i) THEN all_obs[i].score - all_obs[i - 1].score ELSE 0
        comment_velocity(i) ==
            IF has_prev(i)
            THEN all_obs[i].descendants - all_obs[i - 1].descendants ELSE 0
        \* idxmax: the first row of the group with the highest score
        peak(i) == CHOOSE j \in group(i) :
                       \A k \in group(i) :
                           \/ all_obs[k].score < all_obs[j].score
                           \/ all_obs[k].score = all_obs[j].score /\ k >= j
        hours_to_peak(i) ==
            IF all_obs[i].time = NoTime THEN NoHours
            ELSE Max(0, 24 * all_obs[peak(i)].ingestion_date - all_obs[i].time)
        is_long_tail(i) ==
            IsLongTail(all_obs[i].time, all_obs[i].ingestion_date,
                       comment_velocity(i))
        enriched == [i \in 1..n |->
            [id |-> all_obs[i].id,
             ingestion_date |-> all_obs[i].ingestion_date,
             score |-> all_obs[i].score,
             descendants |-> all_obs[i].descendants,
             time |-> all_obs[i].time,
             score_velocity |-> score_velocity(i),
             comment_velocity |-> comment_velocity(i),
             observations_in_window |-> Cardinality(group(i)),
             hours_to_peak |-> hours_to_peak(i),
             is_long_tail |-> is_long_tail(i)]]
    IN  Pick(enriched, {i \in 1..n : enriched[i].ingestion_date = ingestion_date})

\* _clean_html on the texts of the model: tags become blanks, blanks are
\* collapsed and stripped.
CleanHtml(text) ==
    CASE text = "<p></p>" -> ""
      [] text = "<p>great</p>" -> "great"
      [] text = "<p>awful</p>" -> "awful"
      [] OTHER -> text

\* VADER's compound score of a clean text, in units of 0.0001 (the analyzer
\* rounds it to 4 decimals itself); "mild" and "faint" texts stand for
\* scores at and just inside the thresholds.
PolarityCompound(clean) ==
    CASE clean = "great" -> 6249
      [] clean = "awful" -> -4588
      [] clean = "mildly good" -> 500
      [] clean = "mildly bad" -> -500
      [] clean = "faintly good" -> 499
      [] clean = "faintly bad" -> -499
      [] OTHER -> 0

\* The label of a compound score.
SentimentLabelStrict(compound) ==
    IF compound > SentimentPositiveThreshold THEN "positive"
    ELSE IF compound < SentimentNegativeThreshold THEN "negative"
    ELSE "neutral"

SentimentLabel(compound) ==
    IF compound >= SentimentPositiveThreshold THEN "positive"
    ELSE IF compound <= SentimentNegativeThreshold THEN "negative"
    ELSE "neutral"

\* _enrich_comments_sentiment
EnrichCommentsSentiment(comments) ==
    [i \in DOMAIN comments |->
        LET raw_text == IF comments[i].text = NULL THEN "" ELSE comments[i].text
            clean == CleanHtml(raw_text)
            compound == IF clean = "" THEN 0 ELSE PolarityCompound(clean)
        IN  [id |-> comments[i].id,
             ingestion_date |-> comments[i].ingestion_date,
             parent |-> comments[i].parent,
             text |-> comments[i].text,
             sentiment_score |-> compound,
             sentiment_label |-> IF clean = "" THEN "neutral"
                                 ELSE SentimentLabel(compound)]]

\* run_transformation_story_checks
RunTransformationStoryChecks(stories, ingestion_date) ==
    BuildReport(ingestion_date,
        <<CheckNotNull(stories,
                       {"score_velocity", "comment_velocity", "hours_to_peak",
                        "is_long_tail", "observations_in_window"},
                       "critical"),
          CheckRange(stories, "hours_to_peak", {0}, {}, "warning"),
          CheckRange(stories, "observations_in_window", {1}, {}, "warning"),
          CheckVolume(stories, "stories_enriched", 1, "warning")>>)

\* run_transformation_comment_checks; [-1, 1] in units of 0.0001
RunTransformationCommentChecks(comments, ingestion_date) ==
    BuildReport(ingestion_date,
        <<CheckNotNull(comments, {"sentiment_score", "sentiment_label"},
                       "critical"),
          CheckRange(comments, "sentiment_score", {-10000}, {10000}, "warning"),
          CheckVolume(comments, "comments_enriched", 1, "warning")>>)

\* The reports a runner handed to the constructor in place of QualityRunner
\* may return: a critical and a warning check, each passed or failed.
InjectedReports(ingestion_date) ==
    {BuildReport(ingestion_date,
        <<[name |-> "check_not_null", passed |-> c, severity |-> "critical",
           entity |-> "unknown", affected_records |-> 0],
          [name |-> "check_volume", passed |-> w, severity |-> "warning",
           entity |-> "injected", affected_records |-> 0]>>) :
        c \in BOOLEAN, w \in BOOLEAN}

\* The reports self.quality_runner may return for the enriched stories and
\* the enriched comments.
StoryReports(run) ==
    IF run.runner = "QualityRunner"
    THEN {RunTransformationStoryChecks(run.enriched_stories, TargetDate)}
    ELSE InjectedReports(TargetDate)

CommentReports(run) ==
    IF run.runner = "QualityRunner"
    THEN {RunTransformationCommentChecks(run.enriched_comments, TargetDate)}
    ELSE InjectedReports(TargetDate)

\* The order of transform's steps.
TransformStepsSaveEarly ==
    <<"load", "enrich_stories", "enrich_comments", "check_stories",
      "save_stories", "check_comments", "save_comments">>

TransformSteps ==
    <<"load", "enrich_stories", "enrich_comments", "check_stories",
      "check_comments", "save_stories", "save_comments">>

\* if report.has_critical_failures: raise QualityCheckError
RaisesOnNothing(quality_report) == FALSE

RaisesOn(quality_report) == quality_report.has_critical_failures

\* A run that was not started.
Idle == [outcome |-> "idle"]

\* The runs of transform(TargetDate) about to start, over the processed
\* partitions of the lake.
TransformRuns(storyRows, commentRows, runner) ==
    {[outcome |-> "running", step |-> 1, runner |-> runner,
      processed_stories |-> ps, processed_comments |-> pc,
      processed_history |-> ph,
      target_stories |-> <<>>, target_comments |-> <<>>,
      enriched_stories |-> <<>>, enriched_comments |-> <<>>,
      story_report |-> NoReport, comment_report |-> NoReport,
      writes |-> <<>>] :
        ps \in SeqsUpTo(storyRows, MaxRows),
        pc \in SeqsUpTo(commentRows, MaxRows),
        ph \in HistoryPartitions}

\* transform is at the given step.
AtStep(name) == tr.outcome = "running" /\ TransformSteps[tr.step] = name

\* The run after a step that did not raise: at the next step, or returned.
Advance(run) ==
    IF run.step = Len(TransformSteps)
    THEN [run EXCEPT !.outcome = "returned"]
    ELSE [run EXCEPT !.step = run.step + 1]

\* writer.save(layer, entity, data)
Save(run, entity, data) ==
    [run EXCEPT !.writes =
        Append(run.writes, [layer |-> "output", entity |-> entity, data |-> data])]

\* _load_processed_stories, _load_processed_comments
LoadProcessed ==
    /\ AtStep("load")
    /\ tr' = Advance([tr EXCEPT !.target_stories = tr.processed_stories,
                                !.target_comments = tr.processed_comments])
    /\ UNCHANGED <<trackerVars, reportVars, pr, ingestVars>>

\* the enrichment of the stories (the topics column, which nothing reads,
\* is left out)
EnrichStories ==
    /\ AtStep("enrich_stories")
    /\ tr' = Advance(
         IF tr.target_stories = <<>> THEN tr
         ELSE [tr EXCEPT !.enriched_stories =
                 EnrichStoriesTemporal(
                     tr.target_stories,
                     LoadHistoricalStories(tr.processed_history, TargetDate),
                     TargetDate)])
    /\ UNCHANGED <<trackerVars, reportVars, pr, ingestVars>>

\* the enrichment of the comments
EnrichComments ==
    /\ AtStep("enrich_comments")
    /\ tr' = Advance(
         IF tr.target_comments = <<>> THEN tr
         ELSE [tr EXCEPT !.enriched_comments =
                 EnrichCommentsSentiment(tr.target_comments)])
    /\ UNCHANGED <<trackerVars, reportVars, pr, ingestVars>>

\* the story checks: build the report, save it, raise on a critical failure
CheckStories ==
    /\ AtStep("check_stories")
    /\ IF tr.enriched_stories = <<>>
       THEN tr' = Advance(tr)
       ELSE \E story_report \in StoryReports(tr) :
               LET saved == Save([tr EXCEPT !.story_report = story_report],
                                 "quality_reports_stories", <<story_report>>)
               IN  tr' = IF RaisesOn(story_report)
                         THEN [saved EXCEPT !.outcome = "raised"]
                         ELSE Advance(saved)
    /\ UNCHANGED <<trackerVars, reportVars, pr, ingestVars>>

\* the comment checks: build the report, save it, raise on a critical failure
CheckComments ==
    /\ AtStep("check_comments")
    /\ IF tr.enriched_comments = <<>>
       THEN tr' = Advance(tr)
       ELSE \E comment_report \in CommentReports(tr) :
               LET saved == Save([tr EXCEPT !.comment_report = comment_report],
                                 "quality_reports_comments", <<comment_report>>)
               IN  tr' = IF RaisesOn(comment_report)
                         THEN [saved EXCEPT !.outcome = "raised"]
                         ELSE Advance(saved)
    /\ UNCHANGED <<trackerVars, reportVars, pr, ingestVars>>

\* _save_output of the stories
SaveStories ==
    /\ AtStep("save_stories")
    /\ tr' = Advance(IF tr.enriched_stories = <<>> THEN tr
                     ELSE Save(tr, "stories", tr.enriched_stories))
    /\ UNCHANGED <<trackerVars, reportVars, pr, ingestVars>>

\* _save_output of the comments, and the return of the stats
SaveComments ==
    /\ AtStep("save_comments")
    /\ tr' = Advance(IF tr.enriched_comments = <<>> THEN tr
                     ELSE Save(tr, "comments", tr.enriched_comments))
    /\ UNCHANGED <<trackerVars, reportVars, pr, ingestVars>>

TransformNext ==
    \/ LoadProcessed
    \/ EnrichStories
    \/ EnrichComments
    \/ CheckStories
    \/ CheckComments
    \/ SaveStories
    \/ SaveComments

(***************************************************************************)
(*                               PROCESSOR                                 *)
(***************************************************************************)

\* A raw JSON scalar: a number, or something pd.to_numeric cannot read
\* (a missing field, null, a text).
Num(n) == [num |-> TRUE, val |-> n]
Junk == [num |-> FALSE, val |-> 0]

\* NaN, the result of pd.to_numeric(errors="coerce") on what is no number.
NoNumber == -1

\* pd.to_numeric(x, errors="coerce")
ToNumeric(x) == IF x.num THEN x.val ELSE NoNumber

\* pd.to_datetime(pd.to_numeric(x, errors="coerce"), unit="s"): epoch seconds
\* to the model's hours, NaT for what is no number.
ToDatetime(x) == IF ToNumeric(x) = NoNumber THEN NoTime ELSE ToNumeric(x) \div 3600

\* pd.to_numeric(x, errors="coerce").fillna(0)
ToNumericOrZero(x) == IF ToNumeric(x) = NoNumber THEN 0 ELSE ToNumeric(x)

\* The raw stories of the date: an id that may be unreadable, a creation
\* time that may be missing.
RawStoryRows ==
    {[id |-> id, type |-> "story", time |-> time, score |-> Num(20),
      descendants |-> Num(5)] :
        id \in {Num(1), Num(2), Junk}, time \in {Num(7200), Junk}}

\* The raw comments of the date: the parent is story 1, comment 12 or an id
\* nobody has; one comment has an unreadable id.
RawCommentRows ==
    {[id |-> id, type |-> "comment", time |-> Num(7200), parent |-> parent,
      text |-> "<p>great</p>"] :
        id \in {Num(11), Num(12)}, parent \in {Num(1), Num(12), Num(99)}}
    \cup {[id |-> Junk, type |-> "comment", time |-> Num(7200),
           parent |-> Num(1), text |-> "<p>great</p>"]}

\* _normalize_stories: explicit types, rows without a valid id dropped
NormalizeStories(raw) ==
    LET typed == [i \in DOMAIN raw |->
                    [id |-> ToNumeric(raw[i].id), type |-> raw[i].type,
                     time |-> ToDatetime(raw[i].time),
                     score |-> ToNumericOrZero(raw[i].score),
                     descendants |-> ToNumericOrZero(raw[i].descendants)]]
    IN  Pick(typed, {i \in DOMAIN typed : typed[i].id # NoNumber})

\* _normalize_comments: explicit types, rows without a valid id or parent
\* dropped
NormalizeComments(raw) ==
    LET typed == [i \in DOMAIN raw |->
                    [id |-> ToNumeric(raw[i].id), type |-> raw[i].type,
                     time |-> ToDatetime(raw[i].time),
                     parent |-> ToNumeric(raw[i].parent),
                     text |-> raw[i].text]]
    IN  Pick(typed, {i \in DOMAIN typed :
                        typed[i].id # NoNumber /\ typed[i].parent # NoNumber})

\* _add_ingestion_date
AddIngestionDate(rows, ingestion_date) ==
    [i \in DOMAIN rows |->
        [c \in DOMAIN rows[i] \cup {"ingestion_date"} |->
            IF c = "ingestion_date" THEN ingestion_date ELSE rows[i][c]]]

\* _dedup
DedupKeepFirst(rows) ==
    Pick(rows, {i \in DOMAIN rows :
                   \A j \in 1..(i - 1) :
                       \/ rows[j].id # rows[i].id
                       \/ rows[j].ingestion_date # rows[i].ingestion_date})

Dedup(rows) == DropDuplicates(rows)

\* _validate_referential_integrity: the comments whose parent is the id of a
\* story or of a comment of the batch
ValidateReferentialIntegrity(stories, comments) ==
    LET valid_story_ids == {stories[i].id : i \in DOMAIN stories}
        valid_comment_ids == {comments[i].id : i \in DOMAIN comments}
        valid_parent_ids == valid_story_ids \cup valid_comment_ids
    IN  Pick(comments, {i \in DOMAIN comments :
                           comments[i].parent \in valid_parent_ids})

\* run_story_checks
RunStoryChecks(stories, ingestion_date) ==
    BuildReport(ingestion_date,
        <<CheckNotNull(stories, {"id", "type", "time", "ingestion_date"},
                       "critical"),
          CheckUnique(stories, "critical"),
          CheckRange(stories, "score", {0}, {}, "warning"),
          CheckRange(stories, "descendants", {0}, {}, "warning"),
          CheckVolume(stories, "stories", 1, "warning")>>)

\* run_comment_checks
RunCommentChecks(comments, valid_parents, ingestion_date) ==
    BuildReport(ingestion_date,
        <<CheckNotNull(comments,
                       {"id", "type", "time", "parent", "ingestion_date"},
                       "critical"),
          CheckUnique(comments, "critical"),
          CheckReferentialIntegrity(comments, valid_parents, "critical"),
          CheckVolume(comments, "comments", 1, "warning")>>)

\* The runs of process(TargetDate) about to start, over the raw partitions.
ProcessRuns ==
    {[outcome |-> "running", step |-> "load",
      raw_partition_stories |-> rs, raw_partition_comments |-> rc,
      raw_stories |-> <<>>, raw_comments |-> <<>>,
      stories_deduped |-> <<>>, comments_valid |-> <<>>,
      comments_orphaned |-> 0, writes |-> <<>>] :
        rs \in SeqsUpTo(RawStoryRows, MaxRows),
        rc \in SeqsUpTo(RawCommentRows, MaxRows)}

ProcessAt(name) == pr.outcome = "running" /\ pr.step = name

\* _load_raw_stories, _load_raw_comments
ProcessLoad ==
    /\ ProcessAt("load")
    /\ pr' = [pr EXCEPT !.step = "stories",
                        !.raw_stories = pr.raw_partition_stories,
                        !.raw_comments = pr.raw_partition_comments]
    /\ UNCHANGED <<trackerVars, reportVars, tr, ingestVars>>

\* 2. the stories: normalize, stamp, dedup
ProcessStories ==
    /\ ProcessAt("stories")
    /\ pr' = [pr EXCEPT
                !.step = "comments",
                !.stories_deduped =
                    IF pr.raw_stories = <<>> THEN <<>>
                    ELSE Dedup(AddIngestionDate(
                             NormalizeStories(pr.raw_stories), TargetDate))]
    /\ UNCHANGED <<trackerVars, reportVars, tr, ingestVars>>

\* 3. and 4. the comments: normalize, stamp, dedup, and drop the orphans
\* when there are stories
ProcessComments ==
    /\ ProcessAt("comments")
    /\ LET comments_deduped ==
               Dedup(AddIngestionDate(
                   NormalizeComments(pr.raw_comments), TargetDate))
           comments_valid ==
               IF pr.stories_deduped # <<>>
               THEN ValidateReferentialIntegrity(pr.stories_deduped,
                                                 comments_deduped)
               ELSE comments_deduped
       IN  pr' = IF pr.raw_comments = <<>>
                 THEN [pr EXCEPT !.step = "save_stories"]
                 ELSE [pr EXCEPT
                         !.step = "save_stories",
                         !.comments_valid = comments_valid,
                         !.comments_orphaned =
                             Len(comments_deduped) - Len(comments_valid)]
    /\ UNCHANGED <<trackerVars, reportVars, tr, ingestVars>>

\* 5. _save_processed of the stories
ProcessSaveStories ==
    /\ ProcessAt("save_stories")
    /\ pr' = [pr EXCEPT
                !.step = "save_comments",
                !.writes =
                    IF pr.stories_deduped = <<>> THEN pr.writes
                    ELSE Append(pr.writes,
                                [layer |-> "processed", entity |-> "stories",
                                 data |-> pr.stories_deduped])]
    /\ UNCHANGED <<trackerVars, reportVars, tr, ingestVars>>

\* 5. _save_processed of the comments, and the return of the stats
ProcessSaveComments ==
    /\ ProcessAt("save_comments")
    /\ pr' = [pr EXCEPT
                !.outcome = "returned",
                !.writes =
                    IF pr.comments_valid = <<>> THEN pr.writes
                    ELSE Append(pr.writes,
                                [layer |-> "processed", entity |-> "comments",
                                 data |-> pr.comments_valid])]
    /\ UNCHANGED <<trackerVars, reportVars, tr, ingestVars>>

ProcessNext ==
    \/ ProcessLoad
    \/ ProcessStories
    \/ ProcessComments
    \/ ProcessSaveStories
    \/ ProcessSaveComments

(***************************************************************************)
(*                           TRACKING STORE                                *)
(***************************************************************************)

\* get_object raises NoSuchKey: the object was never written.
NoObject == [kind |-> "absent"]

\* str(k) of a story id, as save_tracking writes the keys.
StrOf(id) == CASE id = 1 -> "1" [] id = 2 -> "2" [] OTHER -> "3"

\* Whether int(k) succeeds on a key of the stored document.
IsIntKey(k) == k \in {"1", "2", "3"}

\* int(k) of a key of the stored document.
IntOf(k) == CASE k = "1" -> 1 [] k = "2" -> 2 [] OTHER -> 3

\* save_tracking: the document put under TRACKING_KEY, which replaces the
\* object that was there.
SaveTrackingMerging(old, tracking_data, now) ==
    LET json_data == [k \in {StrOf(id) : id \in DOMAIN tracking_data} |->
                         tracking_data[IntOf(k)]]
        kept == IF old.kind = "json" /\ "stories" \in DOMAIN old.doc
                THEN old.doc.stories ELSE EmptyMap
        merged == [k \in DOMAIN kept \cup DOMAIN json_data |->
                      IF k \in DOMAIN json_data THEN json_data[k] ELSE kept[k]]
    IN  [kind |-> "json",
         doc  |-> [last_updated  |-> now,
                   total_stories |-> Cardinality(DOMAIN tracking_data),
                   stories       |-> merged]]

SaveTracking(old, tracking_data, now) ==
    LET json_data == [k \in {StrOf(id) : id \in DOMAIN tracking_data} |->
                         tracking_data[IntOf(k)]]
    IN  [kind |-> "json",
         doc  |-> [last_updated  |-> now,
                   total_stories |-> Cardinality(DOMAIN tracking_data),
                   stories       |-> json_data]]

\* What made load_active_stories leave its try block, if anything: the
\* object is missing, the read failed, the body is not JSON, the document
\* has no "stories" key, or a key is not an integer.
LoadFailure(object, read_fails) ==
    IF object.kind = "absent" THEN "NoSuchKey"
    ELSE IF read_fails THEN "read"
    ELSE IF object.kind # "json" THEN "json"
    ELSE IF "stories" \notin DOMAIN object.doc THEN "KeyError"
    ELSE IF \E k \in DOMAIN object.doc.stories : ~IsIntKey(k) THEN "ValueError"
    ELSE "none"

\* load_active_stories: the mapping with its keys turned back into
\* integers, or {} from either except branch.
LoadActiveStoriesUncaught(object, read_fails) ==
    LET failure == LoadFailure(object, read_fails)
    IN  IF failure = "none"
        THEN [raised |-> FALSE, failure |-> failure,
              value  |-> [id \in {IntOf(k) : k \in DOMAIN object.doc.stories}
                             |-> object.doc.stories[StrOf(id)]]]
        ELSE [raised |-> failure # "NoSuchKey", failure |-> failure,
              value  |-> EmptyMap]

LoadActiveStories(object, read_fails) ==
    LET failure == LoadFailure(object, read_fails)
    IN  IF failure = "none"
        THEN [raised |-> FALSE, failure |-> failure,
              value  |-> [id \in {IntOf(k) : k \in DOMAIN object.doc.stories}
                             |-> object.doc.stories[StrOf(id)]]]
        ELSE [raised |-> FALSE, failure |-> failure, value |-> EmptyMap]

\* load_active_stories was not called yet.
NotLoaded == [raised |-> FALSE, failure |-> "not called", value |-> EmptyMap]

\* The entries a mapping handed to save_tracking may hold.
StoredEntries ==
    {[first_seen |-> 1, last_updated |-> 1, last_score |-> 50,
      last_descendants |-> 10],
     [first_seen |-> 1, last_updated |-> 2, last_score |-> 75,
      last_descendants |-> 15]}

\* The mappings handed to save_tracking.
TrackingMaps == PartialMaps(StoryIds, StoredEntries)

\* Objects under TRACKING_KEY that save_tracking did not write: none, a body
\* that is not JSON, a document without "stories", a key that is no integer.
ForeignObjects ==
    {NoObject,
     [kind |-> "garbage"],
     [kind |-> "json", doc |-> [last_updated |-> 1]],
     [kind |-> "json",
      doc  |-> [last_updated |-> 1, total_stories |-> 1,
                stories |-> [k \in {"abc"} |->
                    [first_seen |-> 1, last_updated |-> 1, last_score |-> 50,
                     last_descendants |-> 10]]]]}

\* A call of save_tracking.
SaveTrackingCall ==
    \E tracking_data \in TrackingMaps :
        /\ tracking' = tracking_data
        /\ store' = [object  |-> SaveTracking(store.object, tracking_data, today),
                     written |-> TRUE]
        /\ loaded' = NotLoaded
        /\ UNCHANGED <<today, existing_tracked, new_story_ids, story_metrics,
                       tracker_called, reportVars, tr, pr, ing, repeat>>

\* A call of load_active_stories; the read of the body may fail.
LoadActiveStoriesCall ==
    \E read_fails \in BOOLEAN :
        /\ loaded' = LoadActiveStories(store.object, read_fails)
        /\ UNCHANGED <<trackerVars, reportVars, tr, pr, store, ing, repeat>>

\* window_days of the transformer whose enrichment is called directly.
EnrichWindowDays == 2

\* The date it enriches: the day after the window.
EnrichDate == EnrichWindowDays + 1

\* The target rows of a direct call: story 1 created 72 or 48 hours before
\* the target date or at an unknown time, once with other values; story 2.
EnrichTargetRows ==
    {StoryRow(1, EnrichDate, 20, 5, time) :
        time \in {24 * EnrichDate - 72, 24 * EnrichDate - 48, NoTime}}
    \cup {StoryRow(1, EnrichDate, 10, 0, 24 * EnrichDate - 72),
          StoryRow(2, EnrichDate, 20, 5, 24 * EnrichDate - 72)}

\* The partition of a date of the window: nothing, one snapshot of story 1,
\* or two files with a snapshot of it each.
EnrichPartitions(d) ==
    LET a == StoryRow(1, d, 10, 0, 24 * EnrichDate - 72)
        b == StoryRow(1, d, 20, 5, 24 * EnrichDate - 72)
    IN  {<<>>, <<a>>, <<a, b>>}

\* The calls of _enrich_stories_temporal about to be made, on what
\* _load_historical_stories returns for the window.
EnrichCalls ==
    {[outcome |-> "given", target_stories |-> ts, history |-> h,
      historical_stories |-> <<>>, result |-> <<>>] :
        ts \in SeqsUpTo(EnrichTargetRows, MaxRows) \ {<<>>},
        h \in {g \in [1..EnrichWindowDays ->
                         UNION {EnrichPartitions(d) : d \in 1..EnrichWindowDays}] :
                  \A d \in 1..EnrichWindowDays : g[d] \in EnrichPartitions(d)}}

\* _load_historical_stories, then _enrich_stories_temporal.
EnrichCall ==
    /\ tr.outcome = "given"
    /\ LET historical_stories ==
               LoadWindow(tr.history, EnrichDate, EnrichWindowDays)
       IN  tr' = [tr EXCEPT
                    !.outcome = "enriched",
                    !.historical_stories = historical_stories,
                    !.result = EnrichStoriesTemporal(tr.target_stories,
                                   historical_stories, EnrichDate)]
    /\ UNCHANGED <<trackerVars, reportVars, pr, ingestVars>>

\* The comments handed to _enrich_comments_sentiment directly: no text, a
\* text that is empty once cleaned, and texts of every kind of score.
SentimentRows ==
    {CommentRow(11, TargetDate, 1, text) :
        text \in {NULL, "<p></p>", "<p>great</p>", "<p>awful</p>",
                  "mildly good", "mildly bad", "faintly good", "faintly bad",
                  "so so"}}

\* _enrich_comments_sentiment called directly on a frame.
SentimentCall ==
    /\ tr.outcome = "comments given"
    /\ tr' = [tr EXCEPT !.outcome = "labelled",
                        !.result = EnrichCommentsSentiment(tr.comments)]
    /\ UNCHANGED <<trackerVars, reportVars, pr, ingestVars>>

\* The longest frame handed to _dedup directly.
MaxDedupRows == 3

\* Its rows: two ids on two dates, with a score that tells two rows of one
\* pair apart.
DedupRows ==
    {[id |-> id, ingestion_date |-> d, score |-> score] :
        id \in {100, 200}, d \in {1, 2}, score \in {50, 75}}

\* _dedup called directly on a frame.
DedupCall ==
    /\ pr.outcome = "given"
    /\ pr' = [pr EXCEPT !.outcome = "deduplicated", !.result = Dedup(pr.df)]
    /\ UNCHANGED <<trackerVars, reportVars, tr, ingestVars>>

\* update_tracking called directly, once no call was repeated yet.
FirstUpdate == repeat = Idle /\ DirectUpdate

\* update_tracking called again on the same day, with the arguments of the
\* call before, which that call left as they were.
RepeatUpdate ==
    /\ tracker_called
    /\ repeat = Idle
    /\ repeat' = [outcome |-> "returned",
                  result  |-> UpdateTracking(existing_tracked, new_story_ids,
                                             story_metrics, today)]
    /\ UNCHANGED <<trackerVars, reportVars, tr, pr, store, loaded, ing>>

\* The metrics a story may show on a daily run: unchanged, fewer than 5 new
\* comments, exactly 5 new comments.
DailyMetrics ==
    {[score |-> 50, descendants |-> 10], [score |-> 50, descendants |-> 13],
     [score |-> 50, descendants |-> 15]}

\* The tracker's part of one run of HNIngestor.ingest: the mapping is
\* loaded, every id in it is polled again (some polls return nothing), the
\* top stories that are not tracked are new, update_tracking is called on
\* the metrics of what was fetched and its result is saved.
DailyRun ==
    /\ ~tracker_called
    /\ \E read_fails \in BOOLEAN :
        LET tracked_metadata == LoadActiveStories(store.object, read_fails).value
        IN  \E fetched \in SUBSET (DOMAIN tracked_metadata),
               newIds \in SUBSET (StoryIds \ DOMAIN tracked_metadata) :
                \E metrics \in [fetched \cup newIds -> DailyMetrics] :
                    LET updated_tracking ==
                            UpdateTracking(tracked_metadata, newIds, metrics, today)
                    IN  /\ tracker_called' = TRUE
                        /\ existing_tracked' = tracked_metadata
                        /\ new_story_ids' = newIds
                        /\ story_metrics' = metrics
                        /\ tracking' = updated_tracking
                        /\ store' = [object  |-> SaveTracking(store.object,
                                                   updated_tracking, today),
                                     written |-> TRUE]
                        /\ loaded' = NotLoaded
                        /\ UNCHANGED <<today, reportVars, tr, pr, ing, repeat>>

\* The next day's run is due: the DAG runs the ingestion once a day.
DayAfterRun == tracker_called /\ NextDay

(***************************************************************************)
(*                              INGESTOR                                   *)
(***************************************************************************)

\* BATCH_SIZE, 1000 in the code: the comments of one writer.save.
BatchSize == 2

\* The most comments the fetcher yields for one story.
MaxComments == 3

\* A story as the API returns it.
StoryItem(id, metrics) ==
    [id |-> id, type |-> "story", score |-> metrics.score,
     descendants |-> metrics.descendants]

\* get_item returned None.
NoItem == [type |-> "none"]

\* What get_item may return for a tracked id: nothing, an item that is not a
\* story, the story as it was stored, the story with 5 more comments.
ItemAnswers(id) ==
    {NoItem, [id |-> id, type |-> "job", score |-> 50, descendants |-> 0],
     StoryItem(id, [score |-> 50, descendants |-> 10]),
     StoryItem(id, [score |-> 50, descendants |-> 15])}

\* What fetch_top_stories_from_last_week may return: at most two stories of
\* distinct ids.
TopStoryLists ==
    {s \in SeqsUpTo({StoryItem(id, m) :
                        id \in StoryIds,
                        m \in {[score |-> 50, descendants |-> 10],
                               [score |-> 75, descendants |-> 10]}}, 2) :
        \A i, j \in DOMAIN s : s[i].id = s[j].id => i = j}

\* The orders in which a set may be iterated.
Orders(S) ==
    {s \in [1..Cardinality(S) -> S] :
        \A i, j \in DOMAIN s : s[i] = s[j] => i = j}

\* The tracking objects an earlier run may have left: story 1 last refreshed
\* tracking_days ago, story 2 refreshed yesterday.
EarlierTrackings ==
    PartialMaps({1}, {[first_seen |-> 1, last_updated |-> 1,
                       last_score |-> 50, last_descendants |-> 10]})
    \cup {[id \in {2} \cup D |->
              [first_seen |-> 1,
               last_updated |-> IF id = 1 THEN 1 ELSE TrackingDays,
               last_score |-> 50, last_descendants |-> 10]] :
            D \in SUBSET {1}}

\* An event of the run: a call on the tracker, the API, the fetcher or the
\* writer.
Event(op, of) == [op |-> op, of |-> of]

\* The run of ingest about to start.
IngestStart ==
    [outcome |-> "running", step |-> "load",
     tracked_metadata |-> EmptyMap, updated_stories |-> <<>>,
     new_stories |-> <<>>, deduped_all_stories |-> <<>>,
     newly_discovered_ids |-> {}, updated_tracking |-> EmptyMap,
     events |-> <<>>, writes |-> <<>>, yielded |-> EmptyMap,
     total_comments |-> 0]

IngestAt(name) == ing.outcome = "running" /\ ing.step = name

\* _reingest_tracked_stories: the answers that are stories, in the order in
\* which the ids were polled.
ReingestTrackedStories(order, answers) ==
    Pick([i \in DOMAIN order |-> answers[order[i]]],
         {i \in DOMAIN order : answers[order[i]].type = "story"})

\* Step 4, the story_map: the new stories in their order, each replaced by
\* its re-polled version if there is one, then the re-polled stories that
\* are not among the new ones.
DeduplicateStoriesPreferNew(new_stories, updated_stories) ==
    LET last(s, id) ==
            s[CHOOSE i \in DOMAIN s :
                  s[i].id = id /\ \A j \in (i + 1)..Len(s) : s[j].id # id]
        version(id) ==
            IF \E j \in DOMAIN new_stories : new_stories[j].id = id
            THEN last(new_stories, id) ELSE last(updated_stories, id)
        firsts(s) == {i \in DOMAIN s : \A j \in 1..(i - 1) : s[j].id # s[i].id}
        keys == Pick(new_stories, firsts(new_stories))
                \o Pick(updated_stories,
                        {i \in firsts(updated_stories) :
                            \A j \in DOMAIN new_stories :
                                new_stories[j].id # updated_stories[i].id})
    IN  [k \in DOMAIN keys |-> version(keys[k].id)]

DeduplicateStories(new_stories, updated_stories) ==
    LET last(s, id) ==
            s[CHOOSE i \in DOMAIN s :
                  s[i].id = id /\ \A j \in (i + 1)..Len(s) : s[j].id # id]
        version(id) ==
            IF \E j \in DOMAIN updated_stories : updated_stories[j].id = id
            THEN last(updated_stories, id) ELSE last(new_stories, id)
        firsts(s) == {i \in DOMAIN s : \A j \in 1..(i - 1) : s[j].id # s[i].id}
        keys == Pick(new_stories, firsts(new_stories))
                \o Pick(updated_stories,
                        {i \in firsts(updated_stories) :
                            \A j \in DOMAIN new_stories :
                                new_stories[j].id # updated_stories[i].id})
    IN  [k \in DOMAIN keys |-> version(keys[k].id)]

\* story_metrics of _update_tracking
StoryMetricsOf(all_stories) ==
    [id \in {all_stories[i].id : i \in DOMAIN all_stories} |->
        LET s == all_stories[CHOOSE i \in DOMAIN all_stories :
                     /\ all_stories[i].id = id
                     /\ \A j \in (i + 1)..Len(all_stories) :
                            all_stories[j].id # id]
        IN  [score |-> s.score, descendants |-> s.descendants]]

\* The comments the fetcher yields for a story.
CommentsOf(story_id, n) == [k \in 1..n |-> [id |-> k, story |-> story_id]]

\* The batches _fetch_and_save_comments saves for one story: one every
\* BATCH_SIZE comments, and the rest if any.
CommentBatchesFullOnly(comments) ==
    LET n == Len(comments)
    IN  [b \in 1..(n \div BatchSize) |->
            SubSeq(comments, (b - 1) * BatchSize + 1, b * BatchSize)]

CommentBatches(comments) ==
    LET n == Len(comments)
    IN  [b \in 1..((n + BatchSize - 1) \div BatchSize) |->
            SubSeq(comments, (b - 1) * BatchSize + 1,
                   IF b * BatchSize <= n THEN b * BatchSize ELSE n)]

\* _fetch_and_save_comments over the first k active stories: the events and
\* the writes it adds, and its count of the comments it saved.
CommentsStep(active_stories, counts) ==
    LET F[k \in 0..Len(active_stories)] ==
            IF k = 0 THEN [events |-> <<>>, writes |-> <<>>, total_comments |-> 0]
            ELSE LET story_id == active_stories[k].id
                     batches == CommentBatches(
                                    CommentsOf(story_id, counts[story_id]))
                 IN  [events |->
                          F[k - 1].events
                          \o <<Event("fetch_comments_for_story", story_id)>>
                          \o [b \in DOMAIN batches |-> Event("save", "comments")],
                      writes |->
                          F[k - 1].writes
                          \o [b \in DOMAIN batches |->
                                 [layer |-> "raw", entity |-> "comments",
                                  data |-> batches[b],
                                  parent_story_id |-> story_id]],
                      total_comments |->
                          LET T[b \in 0..Len(batches)] ==
                                  IF b = 0 THEN F[k - 1].total_comments
                                  ELSE T[b - 1] + Len(batches[b])
                          IN  T[Len(batches)]]
    IN  F[Len(active_stories)]

\* 1. _load_tracking
IngestLoad ==
    /\ IngestAt("load")
    /\ \E read_fails \in BOOLEAN :
        ing' = [ing EXCEPT
                  !.step = "reingest",
                  !.tracked_metadata =
                      LoadActiveStories(store.object, read_fails).value,
                  !.events = Append(ing.events,
                                    Event("load_active_stories", "tracking"))]
    /\ UNCHANGED <<trackerVars, reportVars, tr, pr, store, loaded, repeat>>

\* 2. _reingest_tracked_stories
IngestReingest ==
    /\ IngestAt("reingest")
    /\ LET tracked_ids == DOMAIN ing.tracked_metadata
       IN  \E order \in Orders(tracked_ids) :
           \E answers \in [tracked_ids ->
                              UNION {ItemAnswers(id) : id \in tracked_ids}] :
               /\ \A id \in tracked_ids : answers[id] \in ItemAnswers(id)
               /\ ing' = [ing EXCEPT
                            !.step = "fetch_new",
                            !.updated_stories =
                                ReingestTrackedStories(order, answers),
                            !.events = ing.events
                                \o [i \in DOMAIN order |->
                                       Event("get_item", order[i])]]
    /\ UNCHANGED <<trackerVars, reportVars, tr, pr, store, loaded, repeat>>

\* 3. _fetch_new_stories
IngestFetchNew ==
    /\ IngestAt("fetch_new")
    /\ \E new_stories \in TopStoryLists :
        ing' = [ing EXCEPT
                  !.step = "update_tracking",
                  !.new_stories = new_stories,
                  !.events = Append(ing.events,
                                    Event("fetch_top_stories", "top"))]
    /\ UNCHANGED <<trackerVars, reportVars, tr, pr, store, loaded, repeat>>

\* 4. and 5. the story_map, then _update_tracking, which saves its result
IngestUpdateTracking ==
    /\ IngestAt("update_tracking")
    /\ LET deduped_all_stories ==
               DeduplicateStories(ing.new_stories, ing.updated_stories)
           newly_discovered_ids ==
               {ing.new_stories[i].id : i \in DOMAIN ing.new_stories}
                   \ DOMAIN ing.tracked_metadata
           metrics == StoryMetricsOf(deduped_all_stories)
           updated_tracking ==
               UpdateTracking(ing.tracked_metadata, newly_discovered_ids,
                              metrics, today)
       IN  /\ ing' = [ing EXCEPT
                        !.step = "save_stories",
                        !.deduped_all_stories = deduped_all_stories,
                        !.newly_discovered_ids = newly_discovered_ids,
                        !.updated_tracking = updated_tracking,
                        !.events = ing.events
                            \o <<Event("update_tracking", "tracking"),
                                 Event("save_tracking", "tracking")>>]
           /\ tracker_called' = TRUE
           /\ existing_tracked' = ing.tracked_metadata
           /\ new_story_ids' = newly_discovered_ids
           /\ story_metrics' = metrics
           /\ tracking' = updated_tracking
           /\ store' = [object  |-> SaveTracking(store.object,
                                                 updated_tracking, today),
                        written |-> TRUE]
           /\ loaded' = NotLoaded
    /\ UNCHANGED <<today, reportVars, tr, pr, repeat>>

\* 6. _save_stories
IngestSaveStories ==
    /\ IngestAt("save_stories")
    /\ ing' = IF ing.deduped_all_stories = <<>>
              THEN [ing EXCEPT !.step = "comments"]
              ELSE [ing EXCEPT
                      !.step = "comments",
                      !.events = Append(ing.events, Event("save", "stories")),
                      !.writes = Append(ing.writes,
                          [layer |-> "raw", entity |-> "stories",
                           data |-> ing.deduped_all_stories])]
    /\ UNCHANGED <<trackerVars, reportVars, tr, pr, store, loaded, repeat>>

\* 7. _get_active_stories and _fetch_and_save_comments; the run returns
IngestComments ==
    /\ IngestAt("comments")
    /\ LET active_stories ==
               Pick(ing.deduped_all_stories,
                    {i \in DOMAIN ing.deduped_all_stories :
                        ing.deduped_all_stories[i].id
                            \in DOMAIN ing.updated_tracking})
           active_ids == {active_stories[i].id : i \in DOMAIN active_stories}
       IN  \E counts \in [active_ids -> 0..MaxComments] :
               LET done == CommentsStep(active_stories, counts)
               IN  ing' = [ing EXCEPT
                             !.outcome = "returned",
                             !.step = "done",
                             !.events = ing.events \o done.events,
                             !.writes = ing.writes \o done.writes,
                             !.yielded =
                                 [id \in active_ids |->
                                     CommentsOf(id, counts[id])],
                             !.total_comments = done.total_comments]
    /\ UNCHANGED <<trackerVars, reportVars, tr, pr, store, loaded, repeat>>

IngestNext ==
    \/ IngestLoad
    \/ IngestReingest
    \/ IngestFetchNew
    \/ IngestUpdateTracking
    \/ IngestSaveStories
    \/ IngestComments

(***************************************************************************)
(*                        LAYER STORAGE WRITER                             *)
(***************************************************************************)

\* The clock counts ticks; so many ticks make one second, so many seconds
\* one day.
TicksPerSecond == 2
SecondsPerDay == 3

\* The longest a response takes to arrive, in ticks, and the number of
\* requests of the comment loop that are followed.
MaxResponseTicks == 2
MaxRequests == 4

\* REQUEST_DELAY = 1.0
RequestDelay == TicksPerSecond

\* datetime.utcnow().strftime("%Y%m%d_%H%M%S"): the second the clock is in
UtcTimestamp(clock) == clock \div TicksPerSecond

\* datetime.utcnow().strftime("%Y-%m-%d"): the day the clock is in
UtcDate(clock) == 1 + (UtcTimestamp(clock) \div SecondsPerDay)

ValidLayers == {"raw", "processed", "output"}
ValidFormats == {"json", "parquet"}

\* "{layer}/{entity}/ingestion_date={partition_date}/{entity}_{timestamp}.{format}"
BuildKey(layer, entity, partition_date, timestamp, format) ==
    [layer |-> layer, entity |-> entity, partition_date |-> partition_date,
     timestamp |-> timestamp, format |-> format]

\* s3.put_object(Key=key, Body=...)
PutObject(objects, key, data) ==
    [k \in DOMAIN objects \cup {key} |-> IF k = key THEN data ELSE objects[k]]

\* LayerStorageWriter.save on the lake of the run, at the clock of the run.
WriterSave(run, layer, entity, data, format, partition_date) ==
    IF layer \notin ValidLayers \/ format \notin ValidFormats \/ data = <<>>
    THEN [run EXCEPT !.outcome = "ValueError"]
    ELSE LET date == IF partition_date = NoDate THEN UtcDate(run.clock)
                     ELSE partition_date
             timestamp == UtcTimestamp(run.clock)
             key == BuildKey(layer, entity, date, timestamp, format)
         IN  [run EXCEPT
                !.objects = PutObject(run.objects, key, data),
                !.saves = Append(run.saves,
                              [layer |-> layer, entity |-> entity,
                               partition_date |-> date, key |-> key,
                               data |-> data])]

\* _save_comment_batch
SaveCommentBatch(run, comment_batch) ==
    WriterSave(run, "raw", "comments", comment_batch, "json", NoDate)

\* HNClient._wait_for_rate_limit: the time at which the request is sent.
WaitForRateLimit(clock, last_request_time) ==
    Max(clock, last_request_time + RequestDelay)

\* _fetch_and_save_comments about to ask for the first comment: nothing
\* was requested yet, the clock is anywhere in its day.
CommentLoops ==
    {[outcome |-> "saving comments", clock |-> c,
      last_request_time |-> 0 - RequestDelay, requests |-> 0,
      comment_batch |-> <<>>, total_comments |-> 0,
      objects |-> EmptyMap, saves |-> <<>>] :
        c \in 0..(TicksPerSecond * SecondsPerDay - 1)}

\* One turn of the loop over the generator: an item is requested, after the
\* wait of the rate limit, and answered some ticks later; a comment is
\* appended to the batch, and a full batch is saved and emptied.
FetchComment ==
    /\ ing.outcome = "saving comments"
    /\ ing.requests < MaxRequests
    /\ \E response \in 0..MaxResponseTicks, found \in BOOLEAN :
          LET sent == WaitForRateLimit(ing.clock, ing.last_request_time)
              answered == [ing EXCEPT !.clock = sent + response,
                                      !.last_request_time = sent,
                                      !.requests = ing.requests + 1]
              comment_batch == IF found
                               THEN Append(ing.comment_batch, ing.requests + 1)
                               ELSE ing.comment_batch
          IN  ing' = IF found /\ Len(comment_batch) >= BatchSize
                     THEN [SaveCommentBatch(answered, comment_batch) EXCEPT
                             !.comment_batch = <<>>,
                             !.total_comments =
                                 ing.total_comments + Len(comment_batch)]
                     ELSE [answered EXCEPT !.comment_batch = comment_batch]
    /\ UNCHANGED <<trackerVars, reportVars, tr, pr, store, loaded, repeat>>

\* The generator of a story is exhausted: the comments left in the batch
\* are saved, and the loop goes on to the next story.
StoryEnds ==
    /\ ing.outcome = "saving comments"
    /\ ing.comment_batch # <<>>
    /\ ing' = [SaveCommentBatch(ing, ing.comment_batch) EXCEPT
                 !.comment_batch = <<>>,
                 !.total_comments =
                     ing.total_comments + Len(ing.comment_batch)]
    /\ UNCHANGED <<trackerVars, reportVars, tr, pr, store, loaded, repeat>>

(***************************************************************************)
(*                              HN CLIENT                                  *)
(***************************************************************************)

\* The largest max_retries a client is built with.
MaxRetries == 3

\* What session.get does: it raises, or it gives a response with a status
\* code and a body that parses or does not.
Response(status_code, json) ==
    [raises |-> "nothing", status_code |-> status_code, json |-> json]

Raises(exception) ==
    [raises |-> exception, status_code |-> 0, json |-> "none"]

Answers ==
    {Response(200, "body"), Response(200, "JSONDecodeError"),
     Response(404, "none"), Response(403, "none"), Response(500, "none"),
     Raises("Timeout"), Raises("ConnectionError")}

\* What one turn of the loop of _make_request does with the answer: the
\* 404 returns None, a 5xx raises HTTPError, raise_for_status raises it for
\* any other status from 400 on, and the three caught exceptions make the
\* attempt a failed one; anything else raised by json() leaves the method.
HandlingRetryNotFound(answer) ==
    IF answer.raises \in {"Timeout", "ConnectionError", "HTTPError"}
    THEN "failed"
    ELSE IF answer.status_code >= 400 THEN "failed"
    ELSE IF answer.json = "JSONDecodeError" THEN "raise"
    ELSE "return body"

Handling(answer) ==
    IF answer.raises \in {"Timeout", "ConnectionError", "HTTPError"}
    THEN "failed"
    ELSE IF answer.status_code = 404 THEN "return None"
    ELSE IF answer.status_code >= 500 THEN "failed"
    ELSE IF answer.status_code >= 400 THEN "failed"
    ELSE IF answer.json = "JSONDecodeError" THEN "raise"
    ELSE "return body"

\* wait_time = 2**attempt, in seconds
WaitTimeConstant(attempt) == 1

WaitTime(attempt) == 2 ^ attempt

\* time.sleep(seconds), as the log of the sleeps keeps it
Sleep(why, ticks) == [why |-> why, ticks |-> ticks]

\* The calls of _make_request about to be made: the client was built with
\* some max_retries, and its previous request was sent long ago or just now.
Requests ==
    {[outcome |-> "requesting", max_retries |-> m, attempt |-> 0,
      clock |-> 0, last_request_time |-> last,
      answers |-> <<>>, sleeps |-> <<>>, result |-> "none"] :
        m \in 0..MaxRetries, last \in {0 - RequestDelay, 0}}

\* One turn of `for attempt in range(self.max_retries)`: the wait of the
\* rate limit, the request, and what follows from its answer.
Attempt ==
    /\ ing.outcome = "requesting"
    /\ ing.attempt < ing.max_retries
    /\ \E answer \in Answers, response \in {0, 1} :
          LET sent == WaitForRateLimit(ing.clock, ing.last_request_time)
              waited == IF sent > ing.clock
                        THEN Append(ing.sleeps,
                                    Sleep("rate limit", sent - ing.clock))
                        ELSE ing.sleeps
              answered == [ing EXCEPT !.clock = sent + response,
                                      !.last_request_time = sent,
                                      !.sleeps = waited,
                                      !.answers = Append(ing.answers, answer)]
              wait_time == WaitTime(ing.attempt)
          IN  ing' =
                CASE Handling(answer) = "return None" ->
                        [answered EXCEPT !.outcome = "returned",
                                         !.result = "None"]
                  [] Handling(answer) = "return body" ->
                        [answered EXCEPT !.outcome = "returned",
                                         !.result = answer.json]
                  [] Handling(answer) = "raise" ->
                        [answered EXCEPT !.outcome = "raised",
                                         !.result = answer.json]
                  [] Handling(answer) = "failed" ->
                        IF ing.attempt < ing.max_retries - 1
                        THEN [answered EXCEPT
                                !.clock = sent + response
                                            + wait_time * TicksPerSecond,
                                !.sleeps = Append(waited,
                                    Sleep("backoff",
                                          wait_time * TicksPerSecond)),
                                !.attempt = ing.attempt + 1]
                        ELSE [answered EXCEPT !.outcome = "returned",
                                              !.result = "None"]
    /\ UNCHANGED <<trackerVars, reportVars, tr, pr, store, loaded, repeat>>

\* The loop ends without a turn having returned: `return None`.
LoopEnds ==
    /\ ing.outcome = "requesting"
    /\ ing.attempt >= ing.max_retries
    /\ ing' = [ing EXCEPT !.outcome = "returned", !.result = "None"]
    /\ UNCHANGED <<trackerVars, reportVars, tr, pr, store, loaded, repeat>>

(***************************************************************************)
(*                     FETCHER: THE COMMENTS OF A STORY                    *)
(***************************************************************************)

\* The items under the story are 1..MaxItems; max_depth is at most
\* MaxDepthArg.
MaxItems == 3
MaxDepthArg == 3

ItemIds == 1..MaxItems

\* The id of the story.
StoryId == 0

\* The trees of items under the story: every item is a reply to the story
\* or to an item of a smaller id.
ItemTrees ==
    {parent \in [ItemIds -> {StoryId} \cup ItemIds] :
        \A id \in ItemIds : parent[id] < id}

\* The replies to an item, as its "kids" lists them: by id, upwards or
\* downwards.
KidsOf(parent, of, order) ==
    LET S == {id \in ItemIds : parent[id] = of}
    IN  CHOOSE kids \in Orders(S) :
            \A i, j \in DOMAIN kids :
                i < j => IF order = "up" THEN kids[i] < kids[j]
                         ELSE kids[i] > kids[j]

\* What get_item answers for the items: None for a deleted one, and else
\* the item with its type and its kids.
ItemsOf(parent, kinds, order) ==
    [id \in ItemIds |->
        IF kinds[id] = "None" THEN NoItem
        ELSE [id |-> id, type |-> kinds[id],
              kids |-> KidsOf(parent, id, order)]]

\* One level of the recursion: the ids to visit, the next one, the depth.
Frame(comment_ids, depth) ==
    [comment_ids |-> comment_ids, index |-> 1, depth |-> depth]

\* if depth >= max_depth: return
DepthReachedLate(depth, max_depth) == depth > max_depth

DepthReached(depth, max_depth) == depth >= max_depth

\* The calls of fetch_comments_for_story about to be made.
FetchCalls ==
    {[outcome |-> "called", parent |-> parent,
      items |-> ItemsOf(parent, kinds, order),
      story |-> [id |-> StoryId, type |-> "story",
                 kids |-> KidsOf(parent, StoryId, order)],
      max_depth |-> max_depth, stack |-> <<>>,
      yielded |-> <<>>, fetched |-> <<>>] :
        parent \in ItemTrees,
        kinds \in [ItemIds -> {"comment", "poll", "None"}],
        order \in {"up", "down"},
        max_depth \in 0..MaxDepthArg}

\* fetch_comments_for_story up to its `yield from`: a story without kids
\* ends the generator at once.
StartFetch ==
    /\ ing.outcome = "called"
    /\ LET kid_ids == ing.story.kids
       IN  ing' = IF kid_ids = <<>>
                  THEN [ing EXCEPT !.outcome = "exhausted"]
                  ELSE [ing EXCEPT !.outcome = "fetching",
                                   !.stack = <<Frame(kid_ids, 0)>>]
    /\ UNCHANGED <<trackerVars, reportVars, tr, pr, store, loaded, repeat>>

\* One turn of `for comment_id in comment_ids` in the innermost level:
\* get_item, the yield of a comment, and the descent into its kids.
FetchItem ==
    /\ ing.outcome = "fetching"
    /\ LET top == Len(ing.stack)
           frame == ing.stack[top]
       IN  /\ ~DepthReached(frame.depth, ing.max_depth)
           /\ frame.index <= Len(frame.comment_ids)
           /\ LET comment_id == frame.comment_ids[frame.index]
                  comment == ing.items[comment_id]
                  stepped == [ing.stack EXCEPT ![top].index = frame.index + 1]
                  asked == [ing EXCEPT
                              !.fetched = Append(ing.fetched, comment_id),
                              !.stack = stepped]
              IN  ing' =
                    IF comment = NoItem THEN asked
                    ELSE IF comment.type = "comment"
                    THEN [asked EXCEPT
                            !.yielded = Append(ing.yielded, comment_id),
                            !.stack = IF comment.kids # <<>>
                                      THEN Append(stepped,
                                               Frame(comment.kids,
                                                     frame.depth + 1))
                                      ELSE stepped]
                    ELSE asked
    /\ UNCHANGED <<trackerVars, reportVars, tr, pr, store, loaded, repeat>>

\* The innermost level returns: it was entered at max_depth, or its loop
\* is over; the generator is exhausted when the outermost level returns.
ReturnFrame ==
    /\ ing.outcome = "fetching"
    /\ LET top == Len(ing.stack)
           frame == ing.stack[top]
       IN  /\ \/ DepthReached(frame.depth, ing.max_depth)
              \/ frame.index > Len(frame.comment_ids)
           /\ ing' = IF top = 1
                     THEN [ing EXCEPT !.outcome = "exhausted", !.stack = <<>>]
                     ELSE [ing EXCEPT !.stack = SubSeq(ing.stack, 1, top - 1)]
    /\ UNCHANGED <<trackerVars, reportVars, tr, pr, store, loaded, repeat>>

(***************************************************************************)
(*                            SPECIFICATIONS                               *)
(***************************************************************************)

\* The quality runner when nothing calls it.
ReportIdle == results = <<>> /\ report = NoReport

\* No tracking object, no ingest run.
IngestIdle ==
    /\ store = [object |-> NoObject, written |-> FALSE]
    /\ loaded = NotLoaded
    /\ ing = Idle
    /\ repeat = Idle

\* The story tracker over successive days, called by the ingestor.
InitTracker ==
    TrackerInit /\ ReportIdle /\ tr = Idle /\ pr = Idle /\ IngestIdle

SpecTracker == InitTracker /\ [][IngestUpdate \/ NextDay]_vars

\* The story tracker over successive days, called with any arguments.
SpecTrackerDirect == InitTracker /\ [][DirectUpdate \/ NextDay]_vars

\* _build_report on every list of at most MaxChecks check results.
InitReport ==
    /\ TrackerInit
    /\ results \in SeqsUpTo(CheckResults, MaxChecks)
    /\ report = NoReport
    /\ tr = Idle /\ pr = Idle /\ IngestIdle

SpecReport == InitReport /\ [][BuildReportCall]_vars

\* One run of transform with the QualityRunner, as transformation/main.py
\* builds it.
InitTransform ==
    /\ TrackerInit /\ ReportIdle /\ pr = Idle /\ IngestIdle
    /\ tr \in TransformRuns(TargetStoryRows, TargetCommentRows, "QualityRunner")

SpecTransform == InitTransform /\ [][TransformNext]_vars

\* One run of transform with a runner handed in by the caller, whose reports
\* may be any.
InitTransformInjected ==
    /\ TrackerInit /\ ReportIdle /\ pr = Idle /\ IngestIdle
    /\ tr \in TransformRuns({StoryRow(1, TargetDate, 20, 5, 0)},
                            {CommentRow(11, TargetDate, 1, "<p>great</p>")},
                            "injected")

SpecTransformInjected == InitTransformInjected /\ [][TransformNext]_vars

\* The partitions of the window's dates when a file may hold a row stamped
\* with the target date: per date no file, an earlier snapshot of story 1,
\* or a row of story 1 or 2 stamped with the target date.
StampedHistoryPartitions ==
    [1..WindowDays ->
        {<<>>, <<StoryRow(1, TargetDate, 10, 0, 0)>>,
         <<StoryRow(2, TargetDate, 10, 0, 0)>>}
        \cup {<<StoryRow(1, d, 10, 0, 0)>> : d \in 1..WindowDays}]

\* One run of transform over a lake whose historical partitions may hold
\* rows stamped with the target date.
InitTransformStamped ==
    /\ TrackerInit /\ ReportIdle /\ pr = Idle /\ IngestIdle
    /\ tr \in {[run EXCEPT !.processed_history = h] :
                  run \in TransformRuns(TargetStoryRows,
                              {CommentRow(11, TargetDate, 1, "<p>great</p>")},
                              "QualityRunner"),
                  h \in StampedHistoryPartitions}

SpecTransformStamped == InitTransformStamped /\ [][TransformNext]_vars

\* The comment loop of one run of the ingestion, with its clock.
InitWriter ==
    /\ TrackerInit /\ ReportIdle /\ tr = Idle /\ pr = Idle
    /\ store = [object |-> NoObject, written |-> FALSE]
    /\ loaded = NotLoaded
    /\ repeat = Idle
    /\ ing \in CommentLoops

SpecWriter == InitWriter /\ [][FetchComment \/ StoryEnds]_vars

\* One call of _make_request; every turn of its loop ends, because
\* session.get answers or raises Timeout after `timeout` seconds.
InitClient ==
    /\ TrackerInit /\ ReportIdle /\ tr = Idle /\ pr = Idle
    /\ store = [object |-> NoObject, written |-> FALSE]
    /\ loaded = NotLoaded
    /\ repeat = Idle
    /\ ing \in Requests

SpecClient ==
    /\ InitClient
    /\ [][Attempt \/ LoopEnds]_vars
    /\ WF_vars(Attempt)
    /\ WF_vars(LoopEnds)

\* One call of fetch_comments_for_story, consumed to its end; get_item
\* always answers (see the client), so every step is taken.
InitFetch ==
    /\ TrackerInit /\ ReportIdle /\ tr = Idle /\ pr = Idle
    /\ store = [object |-> NoObject, written |-> FALSE]
    /\ loaded = NotLoaded
    /\ repeat = Idle
    /\ ing \in FetchCalls

SpecFetch ==
    /\ InitFetch
    /\ [][StartFetch \/ FetchItem \/ ReturnFrame]_vars
    /\ WF_vars(StartFetch)
    /\ WF_vars(FetchItem)
    /\ WF_vars(ReturnFrame)

\* One run of process.
InitProcess ==
    /\ TrackerInit /\ ReportIdle /\ tr = Idle /\ IngestIdle
    /\ pr \in ProcessRuns

SpecProcess == InitProcess /\ [][ProcessNext]_vars

\* The enrichment of the stories on every target frame of at most MaxRows
\* rows and every history of the window.
InitEnrich ==
    /\ TrackerInit /\ ReportIdle /\ pr = Idle /\ IngestIdle
    /\ tr \in EnrichCalls

SpecEnrich == InitEnrich /\ [][EnrichCall]_vars

\* The sentiment of every frame of at most MaxRows comments.
InitSentiment ==
    /\ TrackerInit /\ ReportIdle /\ pr = Idle /\ IngestIdle
    /\ tr \in [outcome : {"comments given"},
                comments : SeqsUpTo(SentimentRows, MaxRows) \ {<<>>},
                result : {<<>>}]

SpecSentiment == InitSentiment /\ [][SentimentCall]_vars

\* _dedup on every frame of at most MaxDedupRows rows.
InitDedup ==
    /\ TrackerInit /\ ReportIdle /\ tr = Idle /\ IngestIdle
    /\ pr \in [outcome : {"given"}, df : SeqsUpTo(DedupRows, MaxDedupRows),
                result : {<<>>}]

SpecDedup == InitDedup /\ [][DedupCall]_vars

\* The entries with first_seen <= last_updated <= day.
OrderedEntries(day) ==
    {e \in [first_seen : 1..day, last_updated : 1..day, last_score : {50},
            last_descendants : {10}] :
        e.first_seen <= e.last_updated}

\* The story tracker called with any arguments, from any day and any
\* mapping whose entries are ordered.
InitTrackerOrdered ==
    /\ today \in 1..MaxDay
    /\ tracking \in PartialMaps(StoryIds, OrderedEntries(today))
    /\ existing_tracked = EmptyMap
    /\ new_story_ids = {}
    /\ story_metrics = EmptyMap
    /\ tracker_called = FALSE
    /\ ReportIdle /\ tr = Idle /\ pr = Idle /\ IngestIdle

SpecTrackerOrdered == InitTrackerOrdered /\ [][DirectUpdate \/ NextDay]_vars

\* The story tracker over successive days, called with any arguments, one
\* call being then made a second time.
SpecRepeat == InitTracker /\ [][FirstUpdate \/ RepeatUpdate \/ NextDay]_vars

\* One run of ingest on the day after the tracking window, over what an
\* earlier run left in the tracking object.
InitIngest ==
    /\ today = TrackingDays + 1
    /\ tracking = EmptyMap
    /\ existing_tracked = EmptyMap
    /\ new_story_ids = {}
    /\ story_metrics = EmptyMap
    /\ tracker_called = FALSE
    /\ ReportIdle /\ tr = Idle /\ pr = Idle
    /\ store \in [object : {NoObject} \cup
                             {SaveTracking(NoObject, m, TrackingDays) :
                                 m \in EarlierTrackings},
                   written : {FALSE}]
    /\ loaded = NotLoaded
    /\ ing = IngestStart
    /\ repeat = Idle

SpecIngest == InitIngest /\ [][IngestNext]_vars

\* One ingest run a day, each of them loading and saving the tracking
\* object; the scheduler starts every run that is due.
SpecDaily ==
    /\ InitTracker
    /\ [][DailyRun \/ DayAfterRun]_vars
    /\ WF_vars(DailyRun)
    /\ WF_vars(DayAfterRun)

\* save_tracking and load_active_stories called in any order over the days,
\* on an object that may have been left by someone else.
InitStore ==
    /\ TrackerInit /\ ReportIdle /\ tr = Idle /\ pr = Idle
    /\ store \in [object : ForeignObjects, written : {FALSE}]
    /\ loaded = NotLoaded
    /\ ing = Idle
    /\ repeat = Idle

SpecStore ==
    InitStore /\ [][SaveTrackingCall \/ LoadActiveStoriesCall \/ NextDay]_vars

(***************************************************************************)
(*                   PROPERTIES: QUALITY RUNNER, TRANSFORMER                 *)
(***************************************************************************)

\* The run of transform is over: it raised or returned its stats.
TransformOver == tr.outcome \in {"raised", "returned"}

\* The reports the run built so far.
BuiltReports == {tr.story_report, tr.comment_report} \ {NoReport}

\* The positions in the writer's log of the saves of the given entity.
WritesOf(entity) == {k \in DOMAIN tr.writes : tr.writes[k].entity = entity}

\* The enriched frame of an entity.
Enriched(entity) ==
    IF entity = "stories" THEN tr.enriched_stories ELSE tr.enriched_comments

\* C1: transform raises the blocking error exactly when a report it built
\* has has_critical_failures; when every failed check of the reports is a
\* warning it does not raise, it returns and the enriched data of every
\* entity that has some is written to the output layer.
C1_RaisesIffCritical ==
    TransformOver =>
        /\ (tr.outcome = "raised") <=>
               (\E r \in BuiltReports : r.has_critical_failures)
        /\ (\A r \in BuiltReports : \A i \in DOMAIN r.checks :
                ~r.checks[i].passed => r.checks[i].severity = "warning")
           => /\ tr.outcome = "returned"
              /\ \A entity \in {"stories", "comments"} :
                    Enriched(entity) # <<>> =>
                        \E k \in WritesOf(entity) :
                            tr.writes[k].data = Enriched(entity)

\* The story report failed a warning check only and did not stop the run;
\* the comment report then failed a critical check and the run raised.
C1_Witness ==
    /\ tr.outcome = "raised"
    /\ tr.story_report # NoReport
    /\ tr.comment_report # NoReport
    /\ tr.story_report.failed_checks = 1
    /\ ~tr.story_report.has_critical_failures
    /\ tr.comment_report.has_critical_failures

\* C2: a critical report halts the run with no enriched data written, and
\* every write of enriched stories or comments comes after the reports of
\* all entities with enriched data were built and saved, none critical.
C2_OutputOnlyAfterCleanReports ==
    tr.outcome # "idle" =>
        /\ (\E r \in BuiltReports : r.has_critical_failures) =>
               /\ tr.outcome = "raised"
               /\ WritesOf("stories") \cup WritesOf("comments") = {}
        /\ \A k \in WritesOf("stories") \cup WritesOf("comments") :
               \A entity \in {"stories", "comments"} :
                   Enriched(entity) # <<>> =>
                       \E j \in 1..(k - 1) :
                           /\ tr.writes[j].layer = "output"
                           /\ tr.writes[j].entity
                                  = IF entity = "stories"
                                    THEN "quality_reports_stories"
                                    ELSE "quality_reports_comments"
                           /\ ~tr.writes[j].data[1].has_critical_failures

\* A story without creation time made the story report critical: the run
\* raised with comments enriched and nothing written but that report.
C2_Witness ==
    /\ tr.outcome = "raised"
    /\ tr.story_report # NoReport
    /\ tr.story_report.has_critical_failures
    /\ tr.enriched_comments # <<>>
    /\ Len(tr.writes) = 1
    /\ tr.writes[1].entity = "quality_reports_stories"

\* C4: the report has has_critical_failures exactly when a result failed
\* with severity critical; failed warnings never set it; passed_checks +
\* failed_checks = total_checks.
C4_CriticalIffFailedCritical ==
    report # NoReport =>
        /\ report.has_critical_failures <=>
               (\E i \in DOMAIN results :
                   results[i].passed = FALSE
                       /\ results[i].severity = "critical")
        /\ (\A i \in DOMAIN results :
               results[i].passed = FALSE => results[i].severity = "warning")
           => report.has_critical_failures = FALSE
        /\ report.passed_checks + report.failed_checks = report.total_checks
        /\ report.total_checks = Len(results)

\* A report over a failed warning and a passed critical check: not critical.
C4_Witness ==
    /\ report # NoReport
    /\ \E i \in DOMAIN results, j \in DOMAIN results :
        /\ ~results[i].passed /\ results[i].severity = "warning"
        /\ results[j].passed /\ results[j].severity = "critical"
    /\ ~report.has_critical_failures
    /\ report.failed_checks >= 1

\* A frame holds two rows with one (id, ingestion_date).
HasDuplicateKey(rows) ==
    \E i \in DOMAIN rows, j \in DOMAIN rows :
        /\ i # j
        /\ rows[i].id = rows[j].id
        /\ rows[i].ingestion_date = rows[j].ingestion_date

\* A comment's parent is the id of no story and of no comment.
HasOrphan(comments, stories) ==
    \E i \in DOMAIN comments :
        /\ \A j \in DOMAIN stories : stories[j].id # comments[i].parent
        /\ \A j \in DOMAIN comments : comments[j].id # comments[i].parent

\* C5 as stated: when the enriched data hold a duplicate primary key or a
\* comment whose parent is no known id, transform raises the blocking error
\* and writes no enriched data.  (A null primary key cannot reach the
\* transformer: the processor drops the rows without id.)
C5_StructuralDefectRaises ==
    (/\ TransformOver
     /\ \/ HasDuplicateKey(tr.enriched_stories)
        \/ HasDuplicateKey(tr.enriched_comments)
        \/ HasOrphan(tr.enriched_comments, tr.enriched_stories))
    => /\ tr.outcome = "raised"
       /\ WritesOf("stories") \cup WritesOf("comments") = {}

\* C6 as stated: when the run is over, the report of every entity with
\* enriched data was saved, whatever the outcome.
C6_EveryReportPersisted ==
    TransformOver =>
        /\ tr.enriched_stories # <<>> => WritesOf("quality_reports_stories") # {}
        /\ tr.enriched_comments # <<>> => WritesOf("quality_reports_comments") # {}

(***************************************************************************)
(*                          PROPERTIES: PROCESSOR                          *)
(***************************************************************************)

\* C3 as stated: when a critical check of the Quality Runner fails on the
\* stories or the comments process ends up with, nothing is persisted and
\* the run ends with the blocking error.
C3_ProcessGatesOnQuality ==
    (/\ pr.outcome \in {"raised", "returned"}
     /\ \/ /\ pr.stories_deduped # <<>>
           /\ RunStoryChecks(pr.stories_deduped,
                             TargetDate).has_critical_failures
        \/ /\ pr.comments_valid # <<>>
           /\ RunCommentChecks(pr.comments_valid,
                               pr.stories_deduped \o pr.comments_valid,
                               TargetDate).has_critical_failures)
    => /\ pr.outcome = "raised"
       /\ pr.writes = <<>>

(***************************************************************************)
(*                       PROPERTIES: STORY TRACKER                         *)
(***************************************************************************)

\* The ids that were tracked at the last call and had current metrics.
TrackedWithMetrics == (DOMAIN existing_tracked) \cap (DOMAIN story_metrics)

\* The ids that were tracked at the last call, had no entry in the metrics
\* and were not among the newly seen ids.
TrackedVanished ==
    {id \in DOMAIN existing_tracked :
        id \notin DOMAIN story_metrics /\ id \notin new_story_ids}

\* score differs from last_score, or descendants - last_descendants >= 5
SignificantChange(id) ==
    \/ story_metrics[id].score # existing_tracked[id].last_score
    \/ story_metrics[id].descendants
           - existing_tracked[id].last_descendants >= 5

C8_ExistingBranchWins ==
    tracker_called =>
        \A id \in (DOMAIN existing_tracked) \cap new_story_ids :
            id \in DOMAIN tracking =>
                tracking[id].first_seen = existing_tracked[id].first_seen

\* C9: for a tracked id with current metrics the entry is refreshed
\* (last_updated = today, metrics = current, first_seen kept) when the score
\* differs or at least 5 comments were added, and otherwise every field of
\* the entry, last_updated included, is as it was.
C9_RefreshIffSignificant ==
    tracker_called =>
        \A id \in TrackedWithMetrics :
            /\ SignificantChange(id) =>
                /\ id \in DOMAIN tracking
                /\ tracking[id] =
                    [first_seen       |-> existing_tracked[id].first_seen,
                     last_updated     |-> today,
                     last_score       |-> story_metrics[id].score,
                     last_descendants |-> story_metrics[id].descendants]
            /\ ~SignificantChange(id) =>
                (id \in DOMAIN tracking =>
                    tracking[id] = existing_tracked[id])

\* One story gained exactly 5 comments at an equal score and was refreshed
\* on a later day; another gained or lost fewer and kept its old entry.
C9_Witness ==
    /\ tracker_called
    /\ \E a \in TrackedWithMetrics, b \in TrackedWithMetrics :
        /\ story_metrics[a].score = existing_tracked[a].last_score
        /\ story_metrics[a].descendants
               = existing_tracked[a].last_descendants + 5
        /\ existing_tracked[a].last_updated < today
        /\ tracking[a].last_updated = today
        /\ story_metrics[b].score = existing_tracked[b].last_score
        /\ story_metrics[b].descendants
               # existing_tracked[b].last_descendants
        /\ b \in DOMAIN tracking
        /\ tracking[b].last_updated < today

\* C10: a tracked id whose metrics show no significant change keeps its
\* entry exactly when today - last_updated < tracking_days; from
\* tracking_days days on it is absent from the returned mapping.
C10_KeptIffWithinTrackingDays ==
    tracker_called =>
        \A id \in TrackedWithMetrics :
            ~SignificantChange(id) =>
                /\ (id \in DOMAIN tracking) <=>
                       (today - existing_tracked[id].last_updated
                            < TrackingDays)
                /\ id \in DOMAIN tracking =>
                       tracking[id] = existing_tracked[id]

\* An unchanged story was dropped at exactly tracking_days days, while
\* another one, a day younger, was kept.
C10_Witness ==
    /\ tracker_called
    /\ \E a \in TrackedWithMetrics, b \in TrackedWithMetrics :
        /\ ~SignificantChange(a)
        /\ today - existing_tracked[a].last_updated = TrackingDays
        /\ a \notin DOMAIN tracking
        /\ ~SignificantChange(b)
        /\ today - existing_tracked[b].last_updated = TrackingDays - 1
        /\ b \in DOMAIN tracking

(***************************************************************************)
(*                      PROPERTIES: TRACKING STORE                         *)
(***************************************************************************)

\* load_active_stories was called since the last save and its read of the
\* object did not fail.
LoadedAfterRead == loaded.failure \notin {"not called", "read"}

\* C18: after any sequence of save_tracking calls, a load_active_stories
\* that reads the object returns exactly the mapping given to the last
\* save, with integer keys again and nothing left of what was there before.
C18_LoadReturnsLastSaved ==
    (store.written /\ LoadedAfterRead)
        => (loaded.failure = "none" /\ loaded.value = tracking)

C18_Witness ==
    /\ store.written
    /\ loaded.failure = "none"
    /\ DOMAIN tracking = {2}
    /\ loaded.value = tracking

\* C19: load_active_stories never raises; whenever it could not read or
\* parse the object, whatever the reason, it returned the empty mapping.
C19_LoadFailsOpen ==
    (loaded.failure # "not called")
        => (~loaded.raised /\ (loaded.failure # "none" => loaded.value = EmptyMap))

C19_Witness ==
    /\ loaded.failure \in {"read", "json", "KeyError", "ValueError"}
    /\ ~loaded.raised
    /\ loaded.value = EmptyMap

(***************************************************************************)
(*                        PROPERTIES: DAILY RUNS                           *)
(***************************************************************************)

\* The last run polled story id, got its metrics, and they showed no
\* significant change against the stored entry.
QuietAtRun(id) ==
    /\ tracker_called
    /\ id \in DOMAIN existing_tracked
    /\ id \in DOMAIN story_metrics
    /\ ~HasSignificantChanges(existing_tracked[id], story_metrics[id])

\* The story is tracked with an entry last refreshed on day d.
TrackedSince(id, d) == id \in DOMAIN tracking /\ tracking[id].last_updated = d

\* C11, on every run: a quiet story stays tracked, with its entry as it was,
\* exactly while today - last_updated < tracking_days.
C11_QuietKeptWhileYoung ==
    \A id \in StoryIds :
        QuietAtRun(id) =>
            IF today - existing_tracked[id].last_updated < TrackingDays
            THEN id \in DOMAIN tracking /\ tracking[id] = existing_tracked[id]
            ELSE id \notin DOMAIN tracking

\* C11, between runs: a run loads what the run before it saved, so it polls
\* no id that was evicted, and such an id can only come back as a new one.
C11_RunPollsWhatWasSaved ==
    DailyRun => /\ DOMAIN existing_tracked' \subseteq DOMAIN tracking
                /\ \A id \in DOMAIN existing_tracked' :
                       existing_tracked'[id] = tracking[id]
                /\ \A id \in DOMAIN tracking' \ DOMAIN tracking :
                       id \in new_story_ids'

\* C11: over successive daily runs, a tracked story whose metrics are
\* available and never show a significant change stays tracked on every run
\* with today - last_updated < tracking_days, is removed by the first run
\* with today - last_updated >= tracking_days and is not polled afterwards
\* unless it is discovered again; so an entry last refreshed on day d is
\* eventually gone or refreshed.
C11_QuietStoryEventuallyEvicted ==
    /\ []C11_QuietKeptWhileYoung
    /\ [][C11_RunPollsWhatWasSaved]_vars
    /\ \A id \in StoryIds : \A d \in 1..(MaxDay - TrackingDays) :
           TrackedSince(id, d) ~> ~TrackedSince(id, d)

C11_Witness ==
    \E id \in StoryIds :
        /\ QuietAtRun(id)
        /\ story_metrics[id].descendants # existing_tracked[id].last_descendants
        /\ today - existing_tracked[id].last_updated = TrackingDays
        /\ id \notin DOMAIN tracking

(***************************************************************************)
(*                         PROPERTIES: PROCESSOR                           *)
(***************************************************************************)

\* process has run _validate_referential_integrity: there were raw comments
\* and stories to validate them against.
Validated ==
    /\ pr.outcome \in {"running", "returned"}
    /\ pr.step \notin {"load", "stories", "comments"}
    /\ pr.raw_comments # <<>>
    /\ pr.stories_deduped # <<>>

\* C12: after _validate_referential_integrity, the parent of every surviving
\* comment is the id of a story or of a comment that survived too.
C12_SurvivorsPointToSurvivors ==
    Validated =>
        \A i \in DOMAIN pr.comments_valid :
            pr.comments_valid[i].parent \in
                {pr.stories_deduped[j].id : j \in DOMAIN pr.stories_deduped}
                \cup {pr.comments_valid[j].id : j \in DOMAIN pr.comments_valid}

\* The (id, ingestion_date) pair of a row.
PairOf(row) == <<row.id, row.ingestion_date>>

\* C13: _dedup returns exactly one row per (id, ingestion_date) pair of its
\* input, the last one of that pair in input order, and drops no pair.
C13_DedupKeepsLastOfEachPair ==
    (pr.outcome = "deduplicated") =>
        /\ \A i, j \in DOMAIN pr.result :
               PairOf(pr.result[i]) = PairOf(pr.result[j]) => i = j
        /\ {PairOf(pr.result[i]) : i \in DOMAIN pr.result}
               = {PairOf(pr.df[i]) : i \in DOMAIN pr.df}
        /\ \A k \in DOMAIN pr.result :
               \E i \in DOMAIN pr.df :
                   /\ pr.df[i] = pr.result[k]
                   /\ \A j \in (i + 1)..Len(pr.df) :
                          PairOf(pr.df[j]) # PairOf(pr.df[i])

C13_Witness ==
    /\ pr.outcome = "deduplicated"
    /\ Len(pr.df) = 3
    /\ PairOf(pr.df[1]) = PairOf(pr.df[3])
    /\ pr.df[1].score # pr.df[3].score
    /\ PairOf(pr.df[2]) # PairOf(pr.df[1])
    /\ pr.df[2].id = pr.df[1].id
    /\ pr.result = <<pr.df[2], pr.df[3]>>

(***************************************************************************)
(*                    PROPERTIES: TEMPORAL ENRICHMENT                      *)
(***************************************************************************)

\* The combined window of the call: the historical rows, then the target's.
CombinedWindow == tr.historical_stories \o tr.target_stories

\* The dates at which the id was observed in the combined window.
DatesOf(id) ==
    {CombinedWindow[i].ingestion_date :
        i \in {j \in DOMAIN CombinedWindow : CombinedWindow[j].id = id}}

\* The snapshot of the id at the date: the last row of that pair.
SnapshotOf(id, date) ==
    LET at == {i \in DOMAIN CombinedWindow :
                   /\ CombinedWindow[i].id = id
                   /\ CombinedWindow[i].ingestion_date = date}
    IN  CombinedWindow[CHOOSE i \in at : \A j \in at : j <= i]

\* The dates before the target date at which the id was observed.
EarlierDatesOf(id) == {d \in DatesOf(id) : d < EnrichDate}

\* The snapshot that immediately precedes the target's.
PrecedingSnapshot(id) ==
    SnapshotOf(id, CHOOSE d \in EarlierDatesOf(id) :
                       \A e \in EarlierDatesOf(id) : e <= d)

\* C14: score_velocity and comment_velocity of a target row are its score
\* and descendants minus those of the immediately preceding snapshot of the
\* id, duplicates of an (id, ingestion_date) pair being resolved to the last;
\* both are 0 when the id has no earlier snapshot.
C14_VelocityAgainstPrecedingSnapshot ==
    (tr.outcome = "enriched") =>
        \A k \in DOMAIN tr.result :
            LET row == tr.result[k]
                now == SnapshotOf(row.id, EnrichDate)
            IN  IF EarlierDatesOf(row.id) = {}
                THEN row.score_velocity = 0 /\ row.comment_velocity = 0
                ELSE /\ row.score_velocity
                            = now.score - PrecedingSnapshot(row.id).score
                     /\ row.comment_velocity
                            = now.descendants
                                  - PrecedingSnapshot(row.id).descendants

C14_Witness ==
    /\ tr.outcome = "enriched"
    /\ tr.history[1] # <<>>
    /\ Len(tr.history[EnrichWindowDays]) = 2
    /\ \E k \in DOMAIN tr.result :
           /\ tr.result[k].id = 1
           /\ tr.result[k].score_velocity = 0
           /\ tr.result[k].comment_velocity = 0
           /\ tr.result[k].score # tr.history[1][1].score
    /\ \E k \in DOMAIN tr.result :
           tr.result[k].id = 2 /\ tr.result[k].score_velocity = 0

\* C15: observations_in_window is the number of distinct dates at which the
\* id was observed in the combined window: 1 without history, and at most
\* window_days + 1.
C15_ObservationsAreDistinctDates ==
    (tr.outcome = "enriched") =>
        \A k \in DOMAIN tr.result :
            LET row == tr.result[k]
            IN  /\ row.observations_in_window = Cardinality(DatesOf(row.id))
                /\ row.observations_in_window <= EnrichWindowDays + 1
                /\ EarlierDatesOf(row.id) = {}
                       => row.observations_in_window = 1

C15_Witness ==
    /\ tr.outcome = "enriched"
    /\ \A d \in 1..EnrichWindowDays : Len(tr.history[d]) = 2
    /\ Len(tr.target_stories) = 2
    /\ \E k \in DOMAIN tr.result :
           /\ tr.result[k].id = 1
           /\ tr.result[k].observations_in_window = EnrichWindowDays + 1
    /\ \E k \in DOMAIN tr.result :
           tr.result[k].id = 2 /\ tr.result[k].observations_in_window = 1

\* C16: is_long_tail holds exactly when more than 48 hours lie between the
\* story's creation and the snapshot's date and comment_velocity is
\* positive; it never holds for a story without an earlier snapshot.
C16_LongTailIffOldAndGrowing ==
    (tr.outcome = "enriched") =>
        \A k \in DOMAIN tr.result :
            LET row == tr.result[k]
            IN  /\ row.is_long_tail
                       <=> /\ row.time # NoTime
                           /\ 24 * row.ingestion_date - row.time > 48
                           /\ row.comment_velocity > 0
                /\ EarlierDatesOf(row.id) = {} => ~row.is_long_tail

C16_Witness ==
    /\ tr.outcome = "enriched"
    /\ \E k \in DOMAIN tr.result :
           /\ tr.result[k].is_long_tail
           /\ 24 * EnrichDate - tr.result[k].time = 72
           /\ tr.result[k].comment_velocity = 5
    /\ \E k \in DOMAIN tr.result :
           /\ ~tr.result[k].is_long_tail
           /\ 24 * EnrichDate - tr.result[k].time = 72
           /\ tr.result[k].comment_velocity = 0

(***************************************************************************)
(*                         PROPERTIES: INGESTOR                            *)
(***************************************************************************)

\* The positions of the run's events that are calls of op.
EventsOf(op) == {i \in DOMAIN ing.events : ing.events[i].op = op}

\* The positions at which something is fetched from the API.
Fetches ==
    EventsOf("get_item") \cup EventsOf("fetch_top_stories")
        \cup EventsOf("fetch_comments_for_story")

\* C17: in a run of ingest the tracking object is read exactly once, before
\* anything is fetched, and written exactly once, after every write of raw
\* stories and raw comments of the run.
C17_TrackingReadFirstWrittenLast ==
    (ing.outcome = "returned") =>
        /\ Cardinality(EventsOf("load_active_stories")) = 1
        /\ \A i \in EventsOf("load_active_stories") : \A j \in Fetches : i < j
        /\ Cardinality(EventsOf("save_tracking")) = 1
        /\ \A i \in EventsOf("save_tracking") : \A j \in EventsOf("save") : j < i

(***************************************************************************)
(*                      PROPERTIES: REPEATED UPDATE                        *)
(***************************************************************************)

\* update_tracking was just called a second time with the arguments of the
\* call before it, on the same day.
Repeated == tracker_called /\ repeat # Idle

StoriesSaved == ing.step \in {"comments", "done"}

\* The data of the run's writes of raw stories, one after the other.
RawStoriesWritten ==
    LET w == Pick(ing.writes,
                  {i \in DOMAIN ing.writes : ing.writes[i].entity = "stories"})
        F[k \in 0..Len(w)] == IF k = 0 THEN <<>> ELSE F[k - 1] \o w[k].data
    IN  F[Len(w)]

\* C24: the raw stories written hold each id at most once; an id that was
\* both re-fetched and among the new top stories is written in its
\* re-fetched version; the ids handed to the tracker as new are the new
\* stories' ids that were not tracked when the run started.
C24_RawStoriesDeduplicated ==
    StoriesSaved =>
        /\ \A i, j \in DOMAIN RawStoriesWritten :
               RawStoriesWritten[i].id = RawStoriesWritten[j].id => i = j
        /\ \A i \in DOMAIN RawStoriesWritten :
               \A j \in DOMAIN ing.updated_stories :
                   ing.updated_stories[j].id = RawStoriesWritten[i].id
                       => RawStoriesWritten[i] = ing.updated_stories[j]
        /\ {RawStoriesWritten[i].id : i \in DOMAIN RawStoriesWritten}
               = {ing.new_stories[i].id : i \in DOMAIN ing.new_stories}
                 \cup {ing.updated_stories[i].id : i \in DOMAIN ing.updated_stories}
        /\ new_story_ids
               = {ing.new_stories[i].id : i \in DOMAIN ing.new_stories}
                     \ DOMAIN ing.tracked_metadata

C24_Witness ==
    /\ StoriesSaved
    /\ \E i \in DOMAIN ing.new_stories, j \in DOMAIN ing.updated_stories :
           /\ ing.new_stories[i].id = ing.updated_stories[j].id
           /\ ing.new_stories[i] # ing.updated_stories[j]
    /\ Len(RawStoriesWritten) = 2
    /\ Cardinality(new_story_ids) = 1

\* The run's writes of raw comments.
CommentWrites ==
    Pick(ing.writes,
         {i \in DOMAIN ing.writes : ing.writes[i].entity = "comments"})

\* The comments written for a story, in the order of the writes.
CommentsWrittenFor(story_id) ==
    LET F[k \in 0..Len(CommentWrites)] ==
            IF k = 0 THEN <<>>
            ELSE IF CommentWrites[k].parent_story_id = story_id
                 THEN F[k - 1] \o CommentWrites[k].data
                 ELSE F[k - 1]
    IN  F[Len(CommentWrites)]

\* The stories _fetch_and_save_comments is given: the written ones that the
\* updated tracking holds.
ActiveIds ==
    {ing.deduped_all_stories[i].id : i \in DOMAIN ing.deduped_all_stories}
        \cap DOMAIN ing.updated_tracking

\* How many comments the fetcher yielded in the run.
TotalYielded ==
    LET ids == DOMAIN ing.yielded
        F[S \in SUBSET ids] ==
            IF S = {} THEN 0
            ELSE LET id == CHOOSE x \in S : TRUE
                 IN  F[S \ {id}] + Len(ing.yielded[id])
    IN  F[ids]

\* C26: comments are fetched for the given stories only, once each; every
\* comment the fetcher yields is written exactly once; no batch is empty or
\* longer than BATCH_SIZE or holds comments of two stories; the total
\* returned is the number of comments yielded.
C26_CommentBatchesExact ==
    (ing.outcome = "returned") =>
        /\ {ing.events[i].of : i \in EventsOf("fetch_comments_for_story")}
               = ActiveIds
        /\ Cardinality(EventsOf("fetch_comments_for_story"))
               = Cardinality(ActiveIds)
        /\ DOMAIN ing.yielded = ActiveIds
        /\ \A id \in ActiveIds : CommentsWrittenFor(id) = ing.yielded[id]
        /\ \A k \in DOMAIN CommentWrites :
               /\ Len(CommentWrites[k].data) \in 1..BatchSize
               /\ CommentWrites[k].parent_story_id \in ActiveIds
               /\ \A c \in DOMAIN CommentWrites[k].data :
                      CommentWrites[k].data[c].story
                          = CommentWrites[k].parent_story_id
        /\ ing.total_comments = TotalYielded

C26_Witness ==
    /\ ing.outcome = "returned"
    /\ Cardinality(ActiveIds) = 2
    /\ \E id \in ActiveIds : Len(ing.yielded[id]) = BatchSize + 1
    /\ \E id \in ActiveIds : Len(ing.yielded[id]) = BatchSize
    /\ Len(CommentWrites) = 3
    /\ ing.total_comments = 2 * BatchSize + 1

\* The tracking mapping the run persisted, as the next run would load it.
PersistedTracking == LoadActiveStories(store.object, FALSE).value

\* The ids of the stories the run fetched: tracked ones polled again and
\* the top stories.
FetchedIds ==
    {ing.updated_stories[i].id : i \in DOMAIN ing.updated_stories}
        \cup {ing.new_stories[i].id : i \in DOMAIN ing.new_stories}

\* C27: after a run of ingest, every id of the persisted tracking mapping is
\* the id of a story fetched in that run and written to the raw layer; an id
\* whose story could not be fetched is not tracked any more.
C27_TrackedWereFetchedAndWritten ==
    (ing.outcome = "returned") =>
        /\ store.written
        /\ PersistedTracking = ing.updated_tracking
        /\ DOMAIN PersistedTracking \subseteq FetchedIds
        /\ DOMAIN PersistedTracking
               \subseteq {RawStoriesWritten[i].id : i \in DOMAIN RawStoriesWritten}

C27_Witness ==
    /\ ing.outcome = "returned"
    /\ \E id \in DOMAIN ing.tracked_metadata :
           id \notin FetchedIds /\ id \notin DOMAIN PersistedTracking
    /\ \E id \in DOMAIN ing.tracked_metadata : id \in DOMAIN PersistedTracking
    /\ new_story_ids = {}

(***************************************************************************)
(*                     PROPERTIES: ORDER OF THE DATES                      *)
(***************************************************************************)

\* Every entry of the mapping has first_seen <= last_updated <= day.
DatesOrdered(mapping, day) ==
    \A id \in DOMAIN mapping :
        /\ mapping[id].first_seen <= mapping[id].last_updated
        /\ mapping[id].last_updated <= day

\* C28: update_tracking keeps first_seen <= last_updated <= today: from any
\* mapping that satisfies it, and so from the empty store, every mapping
\* returned on days that do not go back satisfies it.
C28_DatesStayOrdered ==
    /\ DatesOrdered(tracking, today)
    /\ tracker_called => DatesOrdered(existing_tracked, today)

C28_Witness ==
    /\ tracker_called
    /\ \E id \in DOMAIN tracking :
           /\ id \in DOMAIN existing_tracked
           /\ tracking[id].first_seen < tracking[id].last_updated
           /\ tracking[id].last_updated = today
           /\ existing_tracked[id].last_updated < today
    /\ \E id \in DOMAIN tracking :
           /\ id \in DOMAIN existing_tracked
           /\ tracking[id] = existing_tracked[id]
           /\ tracking[id].last_updated < today
    /\ today = MaxDay

(***************************************************************************)
(*                        PROPERTIES: SENTIMENT                            *)
(***************************************************************************)

\* The text of the comment is null or empty once its HTML is removed.
NoCleanText(comment) == comment.text \in {NULL, "", "<p></p>"}

\* C25: sentiment_label is positive when sentiment_score >= 0.05, negative
\* when it is <= -0.05 and neutral otherwise, so it agrees with the score
\* written next to it; a comment without clean text gets 0.0 and neutral.
C25_LabelAgreesWithScore ==
    (tr.outcome = "labelled") =>
        /\ Len(tr.result) = Len(tr.comments)
        /\ \A i \in DOMAIN tr.result :
               LET row == tr.result[i]
               IN  /\ row.sentiment_label \in {"positive", "negative", "neutral"}
                   /\ row.sentiment_label = "positive"
                          <=> row.sentiment_score >= 500
                   /\ row.sentiment_label = "negative"
                          <=> row.sentiment_score <= -500
                   /\ NoCleanText(tr.comments[i])
                          => /\ row.sentiment_score = 0
                             /\ row.sentiment_label = "neutral"

C25_Witness ==
    /\ tr.outcome = "labelled"
    /\ Len(tr.result) = 2
    /\ tr.result[1].sentiment_score = 500
    /\ tr.result[1].sentiment_label = "positive"
    /\ tr.result[2].sentiment_score = -499
    /\ tr.result[2].sentiment_label = "neutral"

(***************************************************************************)
(*                 PROPERTIES: ENRICHED STORIES OF A DATE                  *)
(***************************************************************************)

\* The files of enriched stories written by the run.
EnrichedStoriesWritten ==
    {tr.writes[i].data : i \in {j \in DOMAIN tr.writes :
                                   tr.writes[j].entity = "stories"}}

\* The ids of the rows of a frame.
IdsOf(rows) == {rows[i].id : i \in DOMAIN rows}

\* C30: the enriched stories written by transform for a date hold exactly
\* one row per distinct story id of that date's processed partition and no
\* row of another ingestion date, even when the partition's files overlap
\* or a historical partition holds rows stamped with the target date.
C30_OneRowPerTargetStory ==
    (tr.outcome \in {"running", "returned", "raised"}) =>
        \A data \in EnrichedStoriesWritten :
            /\ IdsOf(data) = IdsOf(tr.processed_stories)
            /\ \A i, j \in DOMAIN data : data[i].id = data[j].id => i = j
            /\ \A i \in DOMAIN data : data[i].ingestion_date = TargetDate

(***************************************************************************)
(*                      PROPERTIES: OBJECT KEYS                            *)
(***************************************************************************)

\* C29: any two calls of LayerStorageWriter.save of one run for the same
\* layer, entity and partition date (two comment batches saved one after
\* the other, say) write to distinct object keys, so that a later save
\* never overwrites the file of an earlier one.
C29_SavesHaveDistinctKeys ==
    (ing.outcome \in {"saving comments", "ValueError"}) =>
        /\ \A i, j \in DOMAIN ing.saves :
               (/\ i < j
                /\ ing.saves[i].layer = ing.saves[j].layer
                /\ ing.saves[i].entity = ing.saves[j].entity
                /\ ing.saves[i].partition_date = ing.saves[j].partition_date)
                   => ing.saves[i].key # ing.saves[j].key
        /\ \A i \in DOMAIN ing.saves :
               ing.objects[ing.saves[i].key] = ing.saves[i].data

(***************************************************************************)
(*                        PROPERTIES: HN CLIENT                            *)
(***************************************************************************)

\* The i-th HTTP attempt of the request failed in a way that is retried.
Failed(i) == Handling(ing.answers[i]) = "failed"

\* The backoff sleeps of the request, in the order they were made.
Backoffs ==
    LET IsBackoff(sleep) == sleep.why = "backoff"
    IN  SelectSeq(ing.sleeps, IsBackoff)

\* The request makes an attempt only after failed ones, at most max_retries
\* in all; a failed attempt that is not the last allowed one is followed by
\* a wait of 2^attempt seconds; a body is returned as soon as it arrives,
\* and None once max_retries attempts have failed.
RetriesWithBackoff ==
    LET n == Len(ing.answers)
        m == ing.max_retries
    IN  /\ n <= m
        /\ \A i \in 1..(n - 1) : Failed(i)
        /\ Len(Backoffs) = Cardinality({i \in 1..n : Failed(i) /\ i < m})
        /\ \A i \in DOMAIN Backoffs :
               Backoffs[i] = Sleep("backoff", (2 ^ (i - 1)) * TicksPerSecond)
        /\ (n >= 1 /\ Handling(ing.answers[n]) = "return body")
               => ing.outcome = "returned" /\ ing.result = "body"
        /\ (n >= 1 /\ n = m /\ Failed(n))
               => ing.outcome = "returned" /\ ing.result = "None"
        /\ ing.outcome = "requesting"
               => /\ n = ing.attempt
                  /\ n = 0 \/ Failed(n)

\* C21: _make_request retries a transient failure (5xx, timeout, connection
\* error) after a wait of 2^attempt seconds, makes at most max_retries HTTP
\* attempts, does not wait after the last one and then returns None instead
\* of raising; it returns the parsed body as soon as an attempt succeeds.
\* The request always comes to an end.
C21_RetriesThenNone ==
    /\ [](ing.outcome \in {"requesting", "returned", "raised"}
             => RetriesWithBackoff)
    /\ <>(ing.outcome # "requesting")

C21_Witness ==
    /\ ing.outcome = "returned"
    /\ ing.result = "None"
    /\ ing.max_retries = 3
    /\ ing.answers = <<Response(500, "none"), Raises("Timeout"),
                       Raises("ConnectionError")>>
    /\ Backoffs = <<Sleep("backoff", 1 * TicksPerSecond),
                    Sleep("backoff", 2 * TicksPerSecond)>>

\* C22: an attempt answered 404 ends the request at once with None: it is
\* the last attempt, whichever it is, and no backoff wait follows it.
C22_NotFoundIsTerminal ==
    (ing.outcome \in {"requesting", "returned", "raised"}) =>
        \A i \in DOMAIN ing.answers :
            (ing.answers[i].raises = "nothing"
             /\ ing.answers[i].status_code = 404)
                => /\ i = Len(ing.answers)
                   /\ ing.outcome = "returned"
                   /\ ing.result = "None"
                   /\ Len(Backoffs) = i - 1

C22_Witness ==
    /\ ing.outcome = "returned"
    /\ ing.result = "None"
    /\ ing.max_retries = 3
    /\ ing.answers = <<Response(500, "none"), Response(404, "none")>>
    /\ Backoffs = <<Sleep("backoff", 1 * TicksPerSecond)>>

(***************************************************************************)
(*                 PROPERTIES: THE COMMENTS OF A STORY                     *)
(***************************************************************************)

\* The ids from the direct reply to the story down to the item.
RECURSIVE PathTo(_)
PathTo(id) ==
    IF ing.parent[id] = StoryId THEN <<id>>
    ELSE Append(PathTo(ing.parent[id]), id)

\* The item is an available comment.
IsComment(id) == ing.items[id] # NoItem /\ ing.items[id].type = "comment"

\* The comments within max_depth levels of the story that are reached
\* through available comments only.
ReachableComments ==
    {id \in ItemIds :
        /\ Len(PathTo(id)) <= ing.max_depth
        /\ \A i \in DOMAIN PathTo(id) : IsComment(PathTo(id)[i])}

\* Where the id stands in a list of kids.
PositionIn(kids, id) == CHOOSE i \in DOMAIN kids : kids[i] = id

\* x comes before y in the depth-first pre-order: x is an ancestor of y, or
\* where their paths part, the branch of x is listed before the branch of y.
ComesBefore(x, y) ==
    LET px == PathTo(x)
        py == PathTo(y)
        common == {k \in 0..Len(px) :
                      k <= Len(py) /\ \A i \in 1..k : px[i] = py[i]}
        k == CHOOSE c \in common : \A d \in common : d <= c
        kids == IF k = 0 THEN ing.story.kids ELSE ing.items[px[k]].kids
    IN  IF k = Len(px) THEN x # y
        ELSE IF k = Len(py) THEN FALSE
        ELSE PositionIn(kids, px[k + 1]) < PositionIn(kids, py[k + 1])

\* What was yielded so far is in pre-order, without repetition, and
\* nothing was asked for but replies to the story or to a yielded comment,
\* within max_depth levels.
TraversalSound ==
    /\ \A i, j \in DOMAIN ing.yielded :
           i < j => ComesBefore(ing.yielded[i], ing.yielded[j])
    /\ \A i \in DOMAIN ing.yielded : ing.yielded[i] \in ReachableComments
    /\ \A i \in DOMAIN ing.fetched :
           LET id == ing.fetched[i]
           IN  /\ Len(PathTo(id)) <= ing.max_depth
               /\ \/ ing.parent[id] = StoryId
                  \/ \E j \in DOMAIN ing.yielded :
                         ing.yielded[j] = ing.parent[id]

\* C23: fetch_comments_for_story terminates and yields, in depth-first
\* pre-order, exactly the comments reachable from the kids of the story
\* through available comments within max_depth levels; a missing item or
\* one that is not a comment is skipped with all that is under it, and
\* nothing deeper than max_depth is fetched.
C23_YieldsReachableInPreOrder ==
    /\ [](ing.outcome \in {"called", "fetching", "exhausted"}
             => /\ TraversalSound
                /\ ing.outcome = "exhausted"
                       => {ing.yielded[i] : i \in DOMAIN ing.yielded}
                              = ReachableComments)
    /\ <>(ing.outcome = "exhausted")

C23_Witness ==
    /\ ing.outcome = "exhausted"
    /\ ing.max_depth = 2
    /\ ing.parent = (1 :> 0) @@ (2 :> 0) @@ (3 :> 1)
    /\ ing.story.kids = <<2, 1>>
    /\ ing.items[2] = NoItem
    /\ ing.yielded = <<1, 3>>
    /\ ing.fetched = <<2, 1, 3>>

====
